---- MODULE Spec2Model ----
(***************************************************************************)
(* A model of the traffic coverage aggregator (TrafficValidator) and of    *)
(* the live request/response validation entry points                       *)
(* (validateSwaggerLiveRequest, validateSwaggerLiveResponse).              *)
(*                                                                         *)
(* JavaScript strings are TLA+ strings; their characters are reached with  *)
(* SubSeq, so toLowerCase, includes, startsWith, split, the code-unit      *)
(* comparison of < and >, and localeCompare are computed, not assumed.     *)
(***************************************************************************)
EXTENDS Integers, Sequences, FiniteSets, TLC

VARIABLES
  \* fields of TrafficValidator
  operationSpecMapper,        \* Map<string, string[]>, in insertion order
  trafficFiles,               \* string[]: here the payloads themselves
  trafficOperation,           \* Map<string, string[]>
  validationFailOperations,   \* Map<string, string[]>
  coverageData,               \* Map<string, number>
  trafficValidationResult,    \* TrafficValidationIssue[]
  operationCoverageResult,    \* OperationCoverageInfo[]
  operationUndefinedResult,   \* number
  \* position of the running validate() call
  pc,                         \* "new" | "ready" | "loop" | "rollup" | "done"
  idx,                        \* index of the next traffic file of the for loop
  calls,                      \* validate() calls started so far
  \* one call of validateSwaggerLiveRequest / validateSwaggerLiveResponse
  livePc,                     \* "idle" | "returned" | "thrown"
  liveCall,                   \* the arguments of the call
  liveResult,                 \* the returned LiveValidationIssue[]
  liveTrace                   \* the checks the call ran, in order

trafficVars == <<operationSpecMapper, trafficFiles, trafficOperation,
                 validationFailOperations, coverageData, trafficValidationResult,
                 operationCoverageResult, operationUndefinedResult, pc, idx, calls>>
liveVars == <<livePc, liveCall, liveResult, liveTrace>>
vars == <<trafficVars, liveVars>>

(***************************************************************************)
(* Bounds of the model.                                                    *)
(***************************************************************************)
MaxSamples == 3
MaxCalls == 2
MaxHeaders == 2
MaxIssues == 1

(***************************************************************************)
(* JavaScript strings.                                                     *)
(***************************************************************************)
UpperLetters == "ABCDEFGHIJKLMNOPQRSTUVWXYZ"
LowerLetters == "abcdefghijklmnopqrstuvwxyz"
DigitChars == "0123456789"
\* in code-unit order: space ! " ... / (0x20..0x2F)
LowPunctuation == " !\"#$%&'()*+,-./"

CharAt(s, i) == SubSeq(s, i, i)

\* the 1-based position of character c in str, 0 when absent
PosIn(c, str) ==
  IF \E i \in 1..Len(str) : CharAt(str, i) = c
  THEN CHOOSE i \in 1..Len(str) :
         CharAt(str, i) = c /\ \A j \in 1..(i - 1) : CharAt(str, j) # c
  ELSE 0

\* the characters of the model's strings
OtherChars == "_:;=?@\\"
AllChars == UpperLetters \o LowerLetters \o DigitChars \o LowPunctuation \o OtherChars
Chars == {CharAt(AllChars, i) : i \in 1..Len(AllChars)}

\* the UTF-16 code unit of each character
CodeUnitTable ==
  [c \in Chars |->
     IF PosIn(c, UpperLetters) > 0 THEN 64 + PosIn(c, UpperLetters)
     ELSE IF PosIn(c, LowerLetters) > 0 THEN 96 + PosIn(c, LowerLetters)
     ELSE IF PosIn(c, DigitChars) > 0 THEN 47 + PosIn(c, DigitChars)
     ELSE IF PosIn(c, LowPunctuation) > 0 THEN 31 + PosIn(c, LowPunctuation)
     ELSE IF c = ":" THEN 58
     ELSE IF c = ";" THEN 59
     ELSE IF c = "=" THEN 61
     ELSE IF c = "?" THEN 63
     ELSE IF c = "@" THEN 64
     ELSE IF c = "\\" THEN 92
     ELSE 95]
CodeUnit(c) == CodeUnitTable[c]

\* toLowerCase of each character
LowerCaseTable ==
  [c \in Chars |->
     IF PosIn(c, UpperLetters) > 0 THEN CharAt(LowerLetters, PosIn(c, UpperLetters)) ELSE c]
ToLowerChar(c) == LowerCaseTable[c]

RECURSIVE ToLowerCase(_)
ToLowerCase(s) ==
  IF s = "" THEN "" ELSE ToLowerChar(Head(s)) \o ToLowerCase(Tail(s))

\* String.prototype.includes
Includes(s, sub) ==
  \E i \in 1..(Len(s) - Len(sub) + 1) : SubSeq(s, i, i + Len(sub) - 1) = sub

\* String.prototype.startsWith
StartsWith(s, prefix) ==
  Len(s) >= Len(prefix) /\ SubSeq(s, 1, Len(prefix)) = prefix

\* s.split(sep)[0] for a one-character separator
SplitFirst(s, sep) ==
  IF PosIn(sep, s) > 0 THEN SubSeq(s, 1, PosIn(sep, s) - 1) ELSE s

\* s < t on strings: the comparison of the code units, a proper prefix first
RECURSIVE StrLess(_, _)
StrLess(s, t) ==
  IF t = "" THEN FALSE
  ELSE IF s = "" THEN TRUE
  ELSE IF Head(s) = Head(t) THEN StrLess(Tail(s), Tail(t))
  ELSE CodeUnit(Head(s)) < CodeUnit(Head(t))

(***************************************************************************)
(* String.prototype.localeCompare with the default (root) collation:       *)
(* punctuation sorts before digits, digits before letters, and letters are *)
(* compared without their case first (primary level); among strings equal  *)
(* at that level the first difference of case decides, lower case first    *)
(* (tertiary level).                                                       *)
(***************************************************************************)
PunctuationCollation == "_-,;:!?.'\"()@*/\\&#%+=$ "

PrimaryWeightTable ==
  [c \in Chars |->
     IF PosIn(ToLowerChar(c), LowerLetters) > 0
     THEN 200 + PosIn(ToLowerChar(c), LowerLetters)
     ELSE IF PosIn(c, DigitChars) > 0 THEN 100 + PosIn(c, DigitChars)
     ELSE PosIn(c, PunctuationCollation)]
PrimaryWeight(c) == PrimaryWeightTable[c]

TertiaryWeightTable == [c \in Chars |-> IF PosIn(c, UpperLetters) > 0 THEN 1 ELSE 0]
TertiaryWeight(c) == TertiaryWeightTable[c]

CollationWeight(c, level) ==
  IF level = "primary" THEN PrimaryWeight(c) ELSE TertiaryWeight(c)

RECURSIVE CompareWeights(_, _, _)
CompareWeights(s, t, level) ==
  IF s = "" /\ t = "" THEN 0
  ELSE IF s = "" THEN -1
  ELSE IF t = "" THEN 1
  ELSE IF CollationWeight(Head(s), level) < CollationWeight(Head(t), level) THEN -1
  ELSE IF CollationWeight(Head(s), level) > CollationWeight(Head(t), level) THEN 1
  ELSE CompareWeights(Tail(s), Tail(t), level)

LocaleCompare(s, t) ==
  IF CompareWeights(s, t, "primary") # 0
  THEN CompareWeights(s, t, "primary")
  ELSE CompareWeights(s, t, "tertiary")

(***************************************************************************)
(* JavaScript arrays and Maps.  An array is a sequence; a Map is a         *)
(* function whose domain is the set of its keys (its iteration order is    *)
(* kept only where the code iterates: operationSpecMapper is a sequence of *)
(* entries).                                                               *)
(***************************************************************************)
ArrayIncludes(arr, x) == \E i \in 1..Len(arr) : arr[i] = x

\* Array.prototype.indexOf, 0-based, -1 when absent
ArrayIndexOf(arr, x) ==
  IF ArrayIncludes(arr, x)
  THEN (CHOOSE i \in 1..Len(arr) : arr[i] = x /\ \A j \in 1..(i - 1) : arr[j] # x) - 1
  ELSE -1

\* arr.splice(start, 1): a negative start counts from the end
SpliceOne(arr, start) ==
  LET from == IF start < 0
              THEN (IF Len(arr) + start < 0 THEN 0 ELSE Len(arr) + start)
              ELSE (IF start > Len(arr) THEN Len(arr) ELSE start)
  IN  IF from >= Len(arr) THEN arr
      ELSE SubSeq(arr, 1, from) \o SubSeq(arr, from + 2, Len(arr))

EmptyMap == [k \in {} |-> <<>>]
MapHas(m, k) == k \in DOMAIN m
MapSet(m, k, v) == [x \in (DOMAIN m) \cup {k} |-> IF x = k THEN v ELSE m[x]]

(***************************************************************************)
(* The inputs of TrafficValidator: the swagger files under specPath and    *)
(* the traffic payloads under trafficPath, with what the collaborators     *)
(* (loader, live validator) answer for them.                               *)
(***************************************************************************)
Op(id) == [hasId |-> TRUE, operationId |-> id]
\* an operation that declares no operationId
AnonymousOp == [hasId |-> FALSE, operationId |-> ""]

SwaggerFile(path, loads, operations) ==
  [path |-> path, loads |-> loads, operations |-> operations]

FileA == "Ms.A/1-P/a.json"
FileB == "Ms.A/1-P/b.json"
FileC == "Ms.B/2/c.json"
FileE == "Ms.B/2/e.json"
FileX == "Ms.B/2/x.json"

\* liveValidator.swaggerList, with each file's operations in traversal order
Corpora ==
  { << SwaggerFile(FileA, TRUE, <<Op("B_g"), Op("a_p"), AnonymousOp, Op("a_g"), Op("c"), Op("B_g")>>),
       SwaggerFile(FileB, TRUE, <<Op("a_g"), Op("B_p")>>),
       SwaggerFile(FileE, TRUE, <<>>) >>,
    << SwaggerFile(FileX, FALSE, <<Op("c")>>),
       SwaggerFile(FileB, TRUE, <<Op("B_p"), Op("a_g"), Op("Ba_g")>>),
       SwaggerFile(FileC, TRUE, <<Op("c")>>),
       SwaggerFile(FileA, TRUE, <<Op("a_g"), Op("a_p"), Op("B_g")>>) >>,
    << SwaggerFile(FileA, TRUE, <<Op("c"), Op("a_g")>>),
       SwaggerFile(FileA, TRUE, <<Op("a_g"), Op("B_g")>>) >> }

\* OperationContext, as getOperationInfo returns it
Info(operationId, apiVersion, hasRequest, providerNamespace) ==
  [operationId |-> operationId, apiVersion |-> apiVersion,
   hasValidationRequest |-> hasRequest, providerNamespace |-> providerNamespace]

\* One traffic payload.  request/response: "ok" (isSuccessful true), "fail"
\* (false) or "exception" (undefined, with a runtimeException).  raises: where
\* processing the payload throws: "load" (reading or validating it, lines
\* 183-212), "position" (locating the operation in the swagger, lines
\* 256-259) or "none".
Sample(url, info, request, response, runtimeException, raises) ==
  [url |-> url, info |-> info, request |-> request, response |-> response,
   runtimeException |-> runtimeException, raises |-> raises]

ArmUrl == "/providers/ms.a/r"
DataUrl == "/r/items"

Samples ==
  { Sample(ArmUrl, Info("a_g", "1-p", TRUE, "ms.a"), "ok", "ok", FALSE, "none"),
    Sample(ArmUrl, Info("a_g", "1-p", TRUE, "ms.a"), "ok", "fail", FALSE, "none"),
    Sample(ArmUrl, Info("B_g", "1-P", TRUE, "ms.a"), "ok", "ok", FALSE, "none"),
    Sample(ArmUrl, Info("B_g", "1-P", TRUE, "ms.a"), "fail", "ok", FALSE, "position"),
    Sample(DataUrl, Info("a_p", "1-p", FALSE, ""), "exception", "ok", FALSE, "none"),
    Sample(DataUrl, Info("c", "2", FALSE, ""), "ok", "ok", TRUE, "none"),
    Sample(ArmUrl, Info("a_p", "1-p", FALSE, ""), "ok", "ok", FALSE, "none"),
    Sample(DataUrl, Info("", "", FALSE, ""), "ok", "ok", FALSE, "load") }

RECURSIVE SeqsUpTo(_, _)
SeqsUpTo(S, n) ==
  IF n = 0 THEN {<<>>}
  ELSE SeqsUpTo(S, n - 1) \cup
       {Append(q, x) : q \in {r \in SeqsUpTo(S, n - 1) : Len(r) = n - 1}, x \in S}

(***************************************************************************)
(* initialize(), lines 96-171.                                             *)
(***************************************************************************)
\* traverseSwagger's onOperation callback, lines 160-167
RECURSIVE CollectOperationIds(_, _)
CollectOperationIds(operations, ids) ==
  IF operations = <<>> THEN ids
  ELSE LET operation == Head(operations)
       IN  CollectOperationIds(
             Tail(operations),
             IF operation.hasId /\ ~ArrayIncludes(ids, operation.operationId)
             THEN Append(ids, operation.operationId)
             ELSE ids)

MapperHas(mapper, key) == \E i \in 1..Len(mapper) : mapper[i].key = key
MapperIndex(mapper, key) == CHOOSE i \in 1..Len(mapper) : mapper[i].key = key
MapperGet(mapper, key) == mapper[MapperIndex(mapper, key)].value

\* the while loop over swaggerPaths, lines 142-170
RECURSIVE LoadSwaggers(_, _)
LoadSwaggers(swaggerPaths, mapper) ==
  IF swaggerPaths = <<>> THEN mapper
  ELSE LET swagger == Head(swaggerPaths)
           withKey == IF MapperHas(mapper, swagger.path)
                      THEN mapper
                      ELSE Append(mapper, [key |-> swagger.path, value |-> <<>>])
           at == MapperIndex(withKey, swagger.path)
       IN  LoadSwaggers(
             Tail(swaggerPaths),
             IF swagger.loads
             THEN [withKey EXCEPT ![at].value =
                     CollectOperationIds(swagger.operations, withKey[at].value)]
             ELSE mapper)

(***************************************************************************)
(* validate(), the loop over the traffic files: lines 180-289.             *)
(***************************************************************************)
\* an absent (undefined) field of a record
Undefined == "undefined"

\* the loop over operationSpecMapper.keys() of both lookups: the keys whose
\* entry satisfies Matches, in the Map's order
KeysOf(entries) == [i \in 1..Len(entries) |-> entries[i].key]

\* lines 412-430
FindSwaggerByOperationInfo(mapper, operationInfo) ==
  IF ~operationInfo.hasValidationRequest THEN <<>>
  ELSE KeysOf(SelectSeq(mapper, LAMBDA e :
         /\ Includes(ToLowerCase(e.key), operationInfo.providerNamespace)
         /\ \/ Includes(e.key, operationInfo.apiVersion)
            \/ Includes(ToLowerCase(e.key), operationInfo.apiVersion)
         /\ ArrayIncludes(e.value, operationInfo.operationId)))

\* lines 432-445
FindSwaggerByOperationId(mapper, operationInfo) ==
  KeysOf(SelectSeq(mapper, LAMBDA e :
    /\ ArrayIncludes(e.value, operationInfo.operationId)
    /\ \/ Includes(e.key, operationInfo.apiVersion)
       \/ Includes(ToLowerCase(e.key), operationInfo.apiVersion)))

\* lines 224-231
SwaggerFilesOf(mapper, sample) ==
  IF Includes(sample.url, "provider")
  THEN FindSwaggerByOperationInfo(mapper, sample.info)
  ELSE FindSwaggerByOperationId(mapper, sample.info)

\* lines 189-211: errorResult and runtimeExceptions of one payload
ErrorResultOf(sample) ==
  (IF sample.request = "fail" THEN <<[issueSource |-> "request"]>> ELSE <<>>)
  \o (IF sample.response = "fail" THEN <<[issueSource |-> "response"]>> ELSE <<>>)

RuntimeExceptionsOf(sample) ==
  (IF sample.request = "exception" THEN <<"request">> ELSE <<>>)
  \o (IF sample.response = "exception" THEN <<"response">> ELSE <<>>)

\* the condition of lines 241-247
ValidationFailed(sample) ==
  \/ sample.request = "fail"
  \/ sample.request = "exception"
  \/ sample.response = "fail"
  \/ sample.response = "exception"
  \/ sample.runtimeException

\* RecordCovered with the entry created anew whenever an operation is recorded
RecordCoveredAnew(map, swaggerFile, operationId) ==
  MapSet(map, swaggerFile, <<operationId>>)

\* RecordCovered without the test that the operation is not yet recorded
RecordCoveredAgain(map, swaggerFile, operationId) ==
  LET created == IF MapHas(map, swaggerFile) THEN map ELSE MapSet(map, swaggerFile, <<>>)
  IN  MapSet(created, swaggerFile, Append(created[swaggerFile], operationId))

\* lines 235-240
RecordCovered(map, swaggerFile, operationId) ==
  LET created == IF MapHas(map, swaggerFile) THEN map ELSE MapSet(map, swaggerFile, <<>>)
  IN  IF ~ArrayIncludes(created[swaggerFile], operationId)
      THEN MapSet(created, swaggerFile, Append(created[swaggerFile], operationId))
      ELSE created

\* RecordFailed without the test that the operation is not yet recorded
RecordFailedAgain(map, swaggerFile, operationId) ==
  LET created == IF MapHas(map, swaggerFile) THEN map ELSE MapSet(map, swaggerFile, <<>>)
  IN  MapSet(created, swaggerFile, Append(created[swaggerFile], operationId))

\* lines 248-255
RecordFailed(map, swaggerFile, operationId) ==
  LET created == IF MapHas(map, swaggerFile) THEN map ELSE MapSet(map, swaggerFile, <<>>)
  IN  IF ~ArrayIncludes(created[swaggerFile], operationId)
      THEN MapSet(created, swaggerFile, Append(created[swaggerFile], operationId))
      ELSE created

\* lines 261-268
IssueRecord(swaggerFile, payloadFilePath, sample) ==
  [specFilePath |-> swaggerFile, payloadFilePath |-> payloadFilePath,
   errors |-> ErrorResultOf(sample), runtimeExceptions |-> RuntimeExceptionsOf(sample),
   operationId |-> sample.info.operationId]

\* lines 280-288: the record the catch block pushes
CaughtRecord(payloadFilePath) ==
  [specFilePath |-> Undefined, payloadFilePath |-> payloadFilePath,
   errors |-> <<>>, runtimeExceptions |-> <<"RUNTIME_ERROR">>,
   operationId |-> Undefined]

\* The aggregate the loop works on.  thrown: an exception left the loop body.
Aggregate(covered, failed, results, undefinedCount, thrown) ==
  [trafficOperation |-> covered, validationFailOperations |-> failed,
   trafficValidationResult |-> results, operationUndefinedResult |-> undefinedCount,
   thrown |-> thrown]

\* lines 234-270: the loop over swaggerFiles
RECURSIVE BookkeepFiles(_, _, _, _)
BookkeepFiles(swaggerFiles, sample, payloadFilePath, agg) ==
  IF swaggerFiles = <<>> \/ agg.thrown THEN agg
  ELSE LET swaggerFile == Head(swaggerFiles)
           covered == RecordCovered(agg.trafficOperation, swaggerFile,
                                    sample.info.operationId)
           failed == RecordFailed(agg.validationFailOperations, swaggerFile,
                                  sample.info.operationId)
       IN  BookkeepFiles(
             Tail(swaggerFiles), sample, payloadFilePath,
             IF ~ValidationFailed(sample)
             THEN [agg EXCEPT !.trafficOperation = covered]
             ELSE IF sample.raises = "position"
             THEN [agg EXCEPT !.trafficOperation = covered,
                              !.validationFailOperations = failed,
                              !.thrown = TRUE]
             ELSE [agg EXCEPT !.trafficOperation = covered,
                              !.validationFailOperations = failed,
                              !.trafficValidationResult =
                                 Append(@, IssueRecord(swaggerFile, payloadFilePath, sample))])

\* LoopBody with a payload that matches no specification file taken for an
\* error
LoopBodyRaisingUndefined(mapper, sample, payloadFilePath, agg) ==
  IF sample.raises = "load" THEN [agg EXCEPT !.thrown = TRUE]
  ELSE LET swaggerFiles == SwaggerFilesOf(mapper, sample)
       IN  IF Len(swaggerFiles) # 0
           THEN BookkeepFiles(swaggerFiles, sample, payloadFilePath, agg)
           ELSE [agg EXCEPT !.operationUndefinedResult = @ + 1, !.thrown = TRUE]

\* lines 181-275: one iteration of the loop over trafficFiles
LoopBody(mapper, sample, payloadFilePath, agg) ==
  IF sample.raises = "load" THEN [agg EXCEPT !.thrown = TRUE]
  ELSE LET swaggerFiles == SwaggerFilesOf(mapper, sample)
       IN  IF Len(swaggerFiles) # 0
           THEN BookkeepFiles(swaggerFiles, sample, payloadFilePath, agg)
           ELSE [agg EXCEPT !.operationUndefinedResult = @ + 1]

\* lines 180-289: an iteration with the try/catch around the whole loop: what
\* an iteration throws is caught after the loop, which it ends
LoopStep(mapper, sample, payloadFilePath, agg) ==
  LET after == LoopBody(mapper, sample, payloadFilePath, agg)
  IN  IF after.thrown
      THEN [after EXCEPT !.trafficValidationResult =
                            Append(@, CaughtRecord(payloadFilePath))]
      ELSE after

(***************************************************************************)
(* validate(), the rollup per specification file: lines 291-409.           *)
(***************************************************************************)
RECURSIVE Gcd(_, _)
Gcd(a, b) == IF b = 0 THEN a ELSE Gcd(b, a % b)

\* The number a / b of line 310, b > 0, as the fraction in lowest terms.
Quotient(a, b) == [num |-> a \div Gcd(a, b), den |-> b \div Gcd(a, b)]
Zero == [num |-> 0, den |-> 1]

\* SpliceValidated taking the last of the declared operations away for each
\* validated one
RECURSIVE SpliceValidatedFromEnd(_, _)
SpliceValidatedFromEnd(validatedOperations, unValidatedOperations) ==
  IF validatedOperations = <<>> THEN unValidatedOperations
  ELSE SpliceValidatedFromEnd(Tail(validatedOperations),
                              SpliceOne(unValidatedOperations, -1))

\* lines 313-316: each validated operation is pushed to the covered list and
\* spliced out of the copy of the declared ones
RECURSIVE SpliceValidated(_, _)
SpliceValidated(validatedOperations, unValidatedOperations) ==
  IF validatedOperations = <<>> THEN unValidatedOperations
  ELSE SpliceValidated(
         Tail(validatedOperations),
         SpliceOne(unValidatedOperations,
                   ArrayIndexOf(unValidatedOperations, Head(validatedOperations))))

OperationMetaList(operationIds) ==
  [i \in 1..Len(operationIds) |-> [operationId |-> operationIds[i]]]

\* lines 317-322
UnCoveredInner(operationIds) ==
  [i \in 1..Len(operationIds) |->
     [key |-> SplitFirst(operationIds[i], "_"), operationId |-> operationIds[i]]]

\* the distinct keys of the items, in the order of their first item
RECURSIVE FirstSeenKeys(_, _)
FirstSeenKeys(items, keys) ==
  IF items = <<>> THEN keys
  ELSE FirstSeenKeys(Tail(items),
                     IF ArrayIncludes(keys, Head(items).key) THEN keys
                     ELSE Append(keys, Head(items).key))

\* a property name that is an array index ("0", "7", "12"): Object.values
\* lists these first, in ascending numeric order
IsArrayIndex(key) ==
  /\ key # ""
  /\ \A i \in 1..Len(key) : PosIn(CharAt(key, i), DigitChars) > 0
  /\ (Len(key) > 1 => Head(key) # "0")

RECURSIVE DecimalValue(_, _)
DecimalValue(digits, acc) ==
  IF digits = "" THEN acc
  ELSE DecimalValue(Tail(digits), 10 * acc + (PosIn(Head(digits), DigitChars) - 1))

RECURSIVE InsertIndexKey(_, _)
InsertIndexKey(sorted, key) ==
  IF sorted = <<>> THEN <<key>>
  ELSE IF DecimalValue(key, 0) < DecimalValue(Head(sorted), 0) THEN <<key>> \o sorted
  ELSE <<Head(sorted)>> \o InsertIndexKey(Tail(sorted), key)

RECURSIVE SortIndexKeys(_, _)
SortIndexKeys(keys, sorted) ==
  IF keys = <<>> THEN sorted
  ELSE SortIndexKeys(Tail(keys), InsertIndexKey(sorted, Head(keys)))

\* the own property names of the object the reduce builds, in the order of
\* Object.values
PropertyOrder(keys) ==
  SortIndexKeys(SelectSeq(keys, IsArrayIndex), <<>>)
  \o SelectSeq(keys, LAMBDA k : ~IsArrayIndex(k))

\* lines 323-338: the uncovered operations grouped by key
GroupByKey(unCoveredOperationsList) ==
  LET keys == PropertyOrder(FirstSeenKeys(unCoveredOperationsList, <<>>))
  IN  [i \in 1..Len(keys) |->
         [operationIdList |->
            SelectSeq(unCoveredOperationsList, LAMBDA item : item.key = keys[i])]]

\* the comparator of lines 351-361 and 363-373
CompareOperationId(op1, op2) ==
  IF StrLess(op1.operationId, op2.operationId) THEN -1
  ELSE IF StrLess(op2.operationId, op1.operationId) THEN 1
  ELSE 0

\* Array.prototype.sort with that comparator (a stable sort)
RECURSIVE InsertByOperationId(_, _)
InsertByOperationId(sorted, item) ==
  IF sorted = <<>> THEN <<item>>
  ELSE IF CompareOperationId(item, Head(sorted)) < 0 THEN <<item>> \o sorted
  ELSE <<Head(sorted)>> \o InsertByOperationId(Tail(sorted), item)

\* SortByOperationId leaving the list as it is
SortByOperationIdLeavingOrder(list, sorted) == sorted \o list

RECURSIVE SortByOperationId(_, _)
SortByOperationId(list, sorted) ==
  IF list = <<>> THEN sorted
  ELSE SortByOperationId(Tail(list), InsertByOperationId(sorted, Head(list)))

\* BubbleSwap with the comparison turned round
BubbleSwapDescending(format, j) ==
  IF LocaleCompare(format[j + 1].operationIdList[1].key,
                   format[j + 2].operationIdList[1].key) < 0
  THEN [format EXCEPT ![j + 1] = format[j + 2], ![j + 2] = format[j + 1]]
  ELSE format

\* lines 383-391: the comparison and the swap of the bubble sort, j 0-based
BubbleSwap(format, j) ==
  IF LocaleCompare(format[j + 1].operationIdList[1].key,
                   format[j + 2].operationIdList[1].key) > 0
  THEN [format EXCEPT ![j + 1] = format[j + 2], ![j + 2] = format[j + 1]]
  ELSE format

\* line 382: the inner loop
RECURSIVE BubbleInner(_, _, _)
BubbleInner(format, i, j) ==
  IF j < Len(format) - 1 - i THEN BubbleInner(BubbleSwap(format, j), i, j + 1)
  ELSE format

\* line 381: the outer loop
RECURSIVE BubbleSort(_, _)
BubbleSort(format, i) ==
  IF i < Len(format) - 1 THEN BubbleSort(BubbleInner(format, i, 0), i + 1)
  ELSE format

\* lines 296-407: the callback of operationSpecMapper.forEach for one entry;
\* isMatch tells whether the entry is pushed to operationCoverageResult
CoverageOf(key, value, covered, failed) ==
  LET matched == MapHas(covered, key) /\ Len(value) # 0
      validatedOperations == IF MapHas(covered, key) THEN covered[key] ELSE <<>>
      coveredOperations == IF matched THEN Len(validatedOperations) ELSE 0
      coverageRate == IF matched THEN Quotient(coveredOperations, Len(value)) ELSE Zero
      coveredOperationsList ==
        IF matched THEN OperationMetaList(validatedOperations) ELSE <<>>
      unCoveredOperationsList ==
        IF matched THEN UnCoveredInner(SpliceValidated(validatedOperations, value))
        ELSE <<>>
      unCoveredOperationsListFormat == GroupByKey(unCoveredOperationsList)
      validationFailCount == IF MapHas(failed, key) THEN Len(failed[key]) ELSE 0
  IN  [isMatch |-> matched,
       coverageRate |-> coverageRate,
       info |-> [spec |-> key,
                 coveredOperations |-> coveredOperations,
                 coverageRate |-> coverageRate,
                 unCoveredOperations |-> Len(value) - coveredOperations,
                 totalOperations |-> Len(value),
                 validationFailOperations |-> validationFailCount,
                 coveredOperationsList |-> SortByOperationId(coveredOperationsList, <<>>),
                 unCoveredOperationsList |-> SortByOperationId(unCoveredOperationsList, <<>>),
                 unCoveredOperationsListGen |-> BubbleSort(unCoveredOperationsListFormat, 0)]]

\* Rollup pushing the entry of every specification file, matched or not
RECURSIVE RollupReportingAll(_, _, _, _, _)
RollupReportingAll(mapper, covered, failed, data, result) ==
  IF mapper = <<>> THEN [coverageData |-> data, operationCoverageResult |-> result]
  ELSE LET entry == CoverageOf(Head(mapper).key, Head(mapper).value, covered, failed)
       IN  RollupReportingAll(Tail(mapper), covered, failed,
                              MapSet(data, Head(mapper).key, entry.coverageRate),
                              Append(result, entry.info))

\* lines 296-408: operationSpecMapper.forEach
RECURSIVE Rollup(_, _, _, _, _)
Rollup(mapper, covered, failed, data, result) ==
  IF mapper = <<>> THEN [coverageData |-> data, operationCoverageResult |-> result]
  ELSE LET entry == CoverageOf(Head(mapper).key, Head(mapper).value, covered, failed)
       IN  Rollup(Tail(mapper), covered, failed,
                  MapSet(data, Head(mapper).key, entry.coverageRate),
                  IF entry.isMatch THEN Append(result, entry.info) ELSE result)

\* lines 181-289: the loop over trafficFiles, left when an iteration throws
RECURSIVE LoopOver(_, _, _, _)
LoopOver(mapper, files, i, agg) ==
  IF i > Len(files) \/ agg.thrown THEN agg
  ELSE LoopOver(mapper, files, i + 1, LoopStep(mapper, files[i], i, agg))

\* lines 173-409: validate() on a newly initialized TrafficValidator, from the
\* first payload to the rollup
ValidateOnce(mapper, files) ==
  LET agg == LoopOver(mapper, files, 1, Aggregate(EmptyMap, EmptyMap, <<>>, 0, FALSE))
      rolled == Rollup(mapper, agg.trafficOperation, agg.validationFailOperations,
                       EmptyMap, <<>>)
  IN  [operationCoverageResult |-> rolled.operationCoverageResult,
       operationUndefinedResult |-> agg.operationUndefinedResult]

(***************************************************************************)
(* The TrafficValidator as a state machine.                                *)
(***************************************************************************)
\* the state after the constructor, lines 77-94
Init ==
  /\ operationSpecMapper = <<>>
  /\ trafficFiles = <<>>
  /\ trafficOperation = EmptyMap
  /\ validationFailOperations = EmptyMap
  /\ coverageData = EmptyMap
  /\ trafficValidationResult = <<>>
  /\ operationCoverageResult = <<>>
  /\ operationUndefinedResult = 0
  /\ pc = "new"
  /\ idx = 1
  /\ calls = 0
  /\ livePc = "idle"
  /\ liveCall = <<>>
  /\ liveResult = <<>>
  /\ liveTrace = <<>>

\* initialize(), lines 96-171
Initialize ==
  /\ pc = "new"
  /\ \E corpus \in Corpora, files \in SeqsUpTo(Samples, MaxSamples) :
       /\ trafficFiles' = files
       /\ operationSpecMapper' = LoadSwaggers(corpus, operationSpecMapper)
  /\ pc' = "ready"
  /\ UNCHANGED <<trafficOperation, validationFailOperations, coverageData,
                 trafficValidationResult, operationCoverageResult,
                 operationUndefinedResult, idx, calls>>
  /\ UNCHANGED liveVars

\* validate() is called, lines 173-181
ValidateStart ==
  /\ pc \in {"ready", "done"}
  /\ calls < MaxCalls
  /\ calls' = calls + 1
  /\ idx' = 1
  /\ pc' = "loop"
  /\ UNCHANGED <<operationSpecMapper, trafficFiles, trafficOperation,
                 validationFailOperations, coverageData, trafficValidationResult,
                 operationCoverageResult, operationUndefinedResult>>
  /\ UNCHANGED liveVars

\* one iteration of the loop over trafficFiles, lines 181-289
NextTrafficFile ==
  /\ pc = "loop"
  /\ idx <= Len(trafficFiles)
  /\ LET after == LoopStep(operationSpecMapper, trafficFiles[idx], idx,
                           Aggregate(trafficOperation, validationFailOperations,
                                     trafficValidationResult,
                                     operationUndefinedResult, FALSE))
     IN  /\ trafficOperation' = after.trafficOperation
         /\ validationFailOperations' = after.validationFailOperations
         /\ trafficValidationResult' = after.trafficValidationResult
         /\ operationUndefinedResult' = after.operationUndefinedResult
         /\ pc' = IF after.thrown THEN "rollup" ELSE "loop"
         /\ idx' = IF after.thrown THEN idx ELSE idx + 1
  /\ UNCHANGED <<operationSpecMapper, trafficFiles, coverageData,
                 operationCoverageResult, calls>>
  /\ UNCHANGED liveVars

\* the rollup and the return of validate(), lines 291-409
CoverageRollup ==
  /\ \/ pc = "rollup"
     \/ pc = "loop" /\ idx > Len(trafficFiles)
  /\ LET rolled == Rollup(operationSpecMapper, trafficOperation,
                          validationFailOperations, coverageData,
                          operationCoverageResult)
     IN  /\ coverageData' = rolled.coverageData
         /\ operationCoverageResult' = rolled.operationCoverageResult
  /\ pc' = "done"
  /\ UNCHANGED <<operationSpecMapper, trafficFiles, trafficOperation,
                 validationFailOperations, trafficValidationResult,
                 operationUndefinedResult, idx, calls>>
  /\ UNCHANGED liveVars

Next == Initialize \/ ValidateStart \/ NextTrafficFile \/ CoverageRollup

Spec == Init /\ [][Next]_vars

(***************************************************************************)
(* The live validation of one request or response (operationValidator).    *)
(* Collaborators outside these sources are modelled by what the code asks  *)
(* of them: the error-code metadata table, the message formatter, the      *)
(* JSON-path-to-pointer conversion, and the compiled schema validator,     *)
(* whose raw issues are an input of the call.                              *)
(***************************************************************************)
\* errorCodeToErrorMetadata: the fixed table from code to severity and docUrl
ErrorCodeToErrorMetadata(code) ==
  [severity |-> <<"severity", code>>, docUrl |-> <<"docUrl", code>>]

\* getValidateErrorMessage: the message of a code with its parameters
GetValidateErrorMessage(code, param) == <<"message", code, param>>

\* jsonPathToPointer: "$.a.b" and ".a.b" become "/a/b"
RECURSIVE DotsToSlashes(_)
DotsToSlashes(path) ==
  IF path = "" THEN ""
  ELSE (IF Head(path) = "." THEN "/" ELSE Head(path)) \o DotsToSlashes(Tail(path))

JsonPathToPointer(path) ==
  DotsToSlashes(IF StartsWith(path, "$") THEN Tail(path) ELSE path)

\* lines 315-331
IssueFromErrorCode(code, param) ==
  [ref |-> 0,
   code |-> code,
   severity |-> ErrorCodeToErrorMetadata(code).severity,
   message |-> GetValidateErrorMessage(code, param),
   jsonPathsInPayload |-> <<>>,
   pathsInPayload |-> <<>>,
   params |-> <<>>,
   sourceUrl |-> "relatedSchema",
   documentationUrl |-> ErrorCodeToErrorMetadata(code).docUrl]

\* parseInt(s, 10): leading white space, a sign, then the leading digits;
\* NaN when there is none
RECURSIVE LeadingDigits(_)
LeadingDigits(s) ==
  IF s = "" \/ PosIn(Head(s), DigitChars) = 0 THEN ""
  ELSE Head(s) \o LeadingDigits(Tail(s))

RECURSIVE TrimStart(_)
TrimStart(s) == IF s # "" /\ Head(s) = " " THEN TrimStart(Tail(s)) ELSE s

ParseInt(s) ==
  LET trimmed == TrimStart(s)
      negative == trimmed # "" /\ Head(trimmed) = "-"
      signed == trimmed # "" /\ Head(trimmed) \in {"-", "+"}
      digits == LeadingDigits(IF signed THEN Tail(trimmed) ELSE trimmed)
  IN  [nan |-> digits = "",
       value |-> IF negative THEN 0 - DecimalValue(digits, 0) ELSE DecimalValue(digits, 0)]

\* a header object: its own properties in insertion order, the names distinct
Header(name, value) == [name |-> name, value |-> value]

\* lines 166-182, for string values: each declared transform is applied to
\* the value under its key, when there is one
TransformMapValue(data, transforms) ==
  [k \in DOMAIN data |->
     IF k \in DOMAIN transforms /\ transforms[k] = "toLowerCase"
     THEN ToLowerCase(data[k])
     ELSE data[k]]

\* lines 158-161: the names are lower-cased, a later property overwriting an
\* earlier one of the same lower-cased name
RECURSIVE LowerCaseNames(_, _)
LowerCaseNames(headers, result) ==
  IF headers = <<>> THEN result
  ELSE LowerCaseNames(Tail(headers),
                      MapSet(result, ToLowerCase(Head(headers).name), Head(headers).value))

\* lines 154-164
TransformLiveHeader(headers, headerTransform) ==
  TransformMapValue(LowerCaseNames(headers, EmptyMap), headerTransform)

\* What a call has done so far: the issues pushed to result, and the checks
\* it ran.
Outcome(result, trace) == [result |-> result, trace |-> trace]

\* ValidateContentType with an absent content type skipped for a response too
ValidateContentTypeSkippingAbsent(allowedContentTypes, headers, isRequest, out) ==
  LET declared == IF MapHas(headers, "content-type")
                  THEN SplitFirst(headers["content-type"], ";")
                  ELSE ""
      contentType == IF declared # "" THEN declared ELSE Undefined
  IN  IF contentType # Undefined /\ ~ArrayIncludes(allowedContentTypes, contentType)
      THEN Outcome(Append(out.result,
                          IssueFromErrorCode("INVALID_CONTENT_TYPE",
                                             <<contentType, allowedContentTypes>>)),
                   Append(out.trace, "contentType"))
      ELSE Outcome(out.result, Append(out.trace, "contentType"))

\* ValidateContentType with the binary default assumed for a request too
ValidateContentTypeAssumingBinary(allowedContentTypes, headers, isRequest, out) ==
  LET declared == IF MapHas(headers, "content-type")
                  THEN SplitFirst(headers["content-type"], ";")
                  ELSE ""
      contentType == IF declared # "" THEN declared ELSE "application/octet-stream"
  IN  IF contentType # Undefined /\ ~ArrayIncludes(allowedContentTypes, contentType)
      THEN Outcome(Append(out.result,
                          IssueFromErrorCode("INVALID_CONTENT_TYPE",
                                             <<contentType, allowedContentTypes>>)),
                   Append(out.trace, "contentType"))
      ELSE Outcome(out.result, Append(out.trace, "contentType"))

\* lines 184-200
ValidateContentType(allowedContentTypes, headers, isRequest, out) ==
  LET declared == IF MapHas(headers, "content-type")
                  THEN SplitFirst(headers["content-type"], ";")
                  ELSE ""
      contentType == IF declared # "" THEN declared
                     ELSE IF isRequest THEN Undefined
                     ELSE "application/octet-stream"
  IN  IF contentType # Undefined /\ ~ArrayIncludes(allowedContentTypes, contentType)
      THEN Outcome(Append(out.result,
                          IssueFromErrorCode("INVALID_CONTENT_TYPE",
                                             <<contentType, allowedContentTypes>>)),
                   Append(out.trace, "contentType"))
      ELSE Outcome(out.result, Append(out.trace, "contentType"))

\* headers.h === undefined || headers.h === ""
HeaderMissing(headers, name) == ~MapHas(headers, name) \/ headers[name] = ""

\* ValidateLroHeader looking for `location` alone
ValidateLroHeaderLocationOnly(headers, out) ==
  IF HeaderMissing(headers, "location")
  THEN Outcome(Append(out.result,
                      IssueFromErrorCode("LRO_RESPONSE_HEADER",
                                         "location or azure-AsyncOperation")),
               Append(out.trace, "lroHeader"))
  ELSE Outcome(out.result, Append(out.trace, "lroHeader"))

\* lines 293-313
ValidateLroHeader(headers, out) ==
  IF /\ HeaderMissing(headers, "location")
     /\ HeaderMissing(headers, "azure-AsyncOperation")
     /\ HeaderMissing(headers, "azure-asyncoperation")
  THEN Outcome(Append(out.result,
                      IssueFromErrorCode("LRO_RESPONSE_HEADER",
                                         "location or azure-AsyncOperation")),
               Append(out.trace, "lroHeader"))
  ELSE Outcome(out.result, Append(out.trace, "lroHeader"))

LroResponseCode(statusCode, out) ==
  Outcome(Append(out.result, IssueFromErrorCode("LRO_RESPONSE_CODE", statusCode)),
          out.trace)

\* LroPatchPost with 200 accepted as for PUT
LroPatchPostAccepting200(statusCode, headers, out) ==
  IF statusCode = "202" \/ statusCode = "201"
  THEN ValidateLroHeader(headers, out)
  ELSE IF statusCode # "200"
  THEN LroResponseCode(statusCode, out)
  ELSE out

\* lines 270-275
LroPatchPost(statusCode, headers, out) ==
  IF statusCode # "202" /\ statusCode # "201"
  THEN LroResponseCode(statusCode, out)
  ELSE ValidateLroHeader(headers, out)

\* LroDelete with the header check on both valid codes
LroDeleteCheckingBoth(statusCode, headers, out) ==
  IF statusCode # "202" /\ statusCode # "204"
  THEN LroResponseCode(statusCode, out)
  ELSE ValidateLroHeader(headers, out)

\* lines 276-282
LroDelete(statusCode, headers, out) ==
  LET coded == IF statusCode # "202" /\ statusCode # "204"
               THEN LroResponseCode(statusCode, out)
               ELSE out
  IN  IF statusCode = "202" THEN ValidateLroHeader(headers, coded) ELSE coded

\* LroPut with 200 taken for an invalid code
LroPutRejecting200(statusCode, headers, out) ==
  IF statusCode = "202" \/ statusCode = "201"
  THEN ValidateLroHeader(headers, out)
  ELSE LroResponseCode(statusCode, out)

\* lines 283-289
LroPut(statusCode, headers, out) ==
  IF statusCode = "202" \/ statusCode = "201"
  THEN ValidateLroHeader(headers, out)
  ELSE IF statusCode # "200"
  THEN LroResponseCode(statusCode, out)
  ELSE out

\* ValidateLroOperation without the test of x-ms-long-running-operation
ValidateLroOperationOfAnyOperation(operation, statusCode, headers, out) ==
  LET called == Outcome(out.result, Append(out.trace, "lro"))
  IN  IF operation.method = "patch" \/ operation.method = "post"
      THEN LroPatchPost(statusCode, headers, called)
      ELSE IF operation.method = "delete"
      THEN LroDelete(statusCode, headers, called)
      ELSE IF operation.method = "put"
      THEN LroPut(statusCode, headers, called)
      ELSE called

\* lines 263-291
ValidateLroOperation(operation, statusCode, headers, out) ==
  LET called == Outcome(out.result, Append(out.trace, "lro"))
  IN  IF operation.longRunning
      THEN IF operation.method = "patch" \/ operation.method = "post"
           THEN LroPatchPost(statusCode, headers, called)
           ELSE IF operation.method = "delete"
           THEN LroDelete(statusCode, headers, called)
           ELSE IF operation.method = "put"
           THEN LroPut(statusCode, headers, called)
           ELSE called
      ELSE called

(***************************************************************************)
(* schemaValidateIssueToLiveValidationIssue, lines 202-261.  The issue is  *)
(* changed in place while its JSON paths are mapped, so what a path does   *)
(* depends on what the paths before it did to issue.code.                  *)
(***************************************************************************)
MissingRequiredProperty == "OBJECT_MISSING_REQUIRED_PROPERTY"

\* Reclassify without the branch for the headers of a response
ReclassifyWithoutHeaders(st, path, operation, ctx) ==
  LET code == IF ctx.isResponse THEN "INVALID_RESPONSE_BODY"
              ELSE "MISSING_REQUIRED_PARAMETER"
      missingProperty == IF Len(st.issue.params) > 0 THEN st.issue.params[1] ELSE Undefined
  IN  [issue |-> [st.issue EXCEPT
                    !.code = code,
                    !.severity = ErrorCodeToErrorMetadata(code).severity,
                    !.message = GetValidateErrorMessage(code, missingProperty),
                    !.pathsInPayload = Append(@, JsonPathToPointer(path))],
       skipIssue |-> st.skipIssue]

\* Reclassify suppressing the body issue of a long-running operation
\* whatever the status code
ReclassifySuppressingAnyCode(st, path, operation, ctx) ==
  LET isBodyIssue == StartsWith(path, ".body")
      code == IF ctx.isResponse
              THEN IF isBodyIssue THEN "INVALID_RESPONSE_BODY"
                   ELSE IF StartsWith(path, ".headers") THEN "INVALID_RESPONSE_HEADER"
                   ELSE st.issue.code
              ELSE "MISSING_REQUIRED_PARAMETER"
      skip == ctx.isResponse /\ isBodyIssue /\ operation.longRunning
      missingProperty == IF Len(st.issue.params) > 0 THEN st.issue.params[1] ELSE Undefined
  IN  [issue |-> [st.issue EXCEPT
                    !.code = code,
                    !.severity = ErrorCodeToErrorMetadata(code).severity,
                    !.message = GetValidateErrorMessage(code, missingProperty),
                    !.pathsInPayload = Append(@, JsonPathToPointer(path))],
       skipIssue |-> st.skipIssue \/ skip]

\* lines 231-252: the reclassification of a missing required property
Reclassify(st, path, operation, ctx) ==
  LET isBodyIssue == StartsWith(path, ".body")
      code == IF ctx.isResponse
              THEN IF isBodyIssue THEN "INVALID_RESPONSE_BODY"
                   ELSE IF StartsWith(path, ".headers") THEN "INVALID_RESPONSE_HEADER"
                   ELSE st.issue.code
              ELSE "MISSING_REQUIRED_PARAMETER"
      skip == /\ ctx.isResponse
              /\ isBodyIssue
              /\ operation.longRunning
              /\ (ctx.statusCode = "201" \/ ctx.statusCode = "202")
      missingProperty == IF Len(st.issue.params) > 0 THEN st.issue.params[1] ELSE Undefined
  IN  [issue |-> [st.issue EXCEPT
                    !.code = code,
                    !.severity = ErrorCodeToErrorMetadata(code).severity,
                    !.message = GetValidateErrorMessage(code, missingProperty),
                    !.pathsInPayload = Append(@, JsonPathToPointer(path))],
       skipIssue |-> st.skipIssue \/ skip]

\* lines 225-229: a body path becomes a path from the root of the body
RewriteBodyPath(st, path, idx0) ==
  LET rooted == "$" \o SubSeq(path, 6, Len(path))
  IN  [issue |-> [st.issue EXCEPT
                    !.jsonPathsInPayload[idx0] = rooted,
                    !.pathsInPayload = Append(@, JsonPathToPointer(rooted))],
       skipIssue |-> st.skipIssue]

\* MapPath with every body path rewritten, the body root of a missing
\* required property too
MapPathRewritingRoot(st, path, idx0, operation, ctx) ==
  IF StartsWith(path, ".body") THEN RewriteBodyPath(st, path, idx0)
  ELSE IF st.issue.code = MissingRequiredProperty THEN Reclassify(st, path, operation, ctx)
  ELSE [st EXCEPT !.issue.pathsInPayload = Append(@, JsonPathToPointer(path))]

\* lines 221-255: the callback of jsonPathsInPayload.map for one path
MapPath(st, path, idx0, operation, ctx) ==
  LET isMissingRequiredProperty == st.issue.code = MissingRequiredProperty
      isBodyIssue == StartsWith(path, ".body")
  IN  IF isBodyIssue /\ (Len(path) > 5 \/ ~isMissingRequiredProperty)
      THEN RewriteBodyPath(st, path, idx0)
      ELSE IF isMissingRequiredProperty
      THEN Reclassify(st, path, operation, ctx)
      ELSE [st EXCEPT !.issue.pathsInPayload = Append(@, JsonPathToPointer(path))]

\* jsonPathsInPayload.map over the paths the issue had when map was called
RECURSIVE MapPaths(_, _, _, _, _)
MapPaths(st, paths, idx0, operation, ctx) ==
  IF idx0 > Len(paths) THEN st
  ELSE MapPaths(MapPath(st, paths[idx0], idx0, operation, ctx),
                paths, idx0 + 1, operation, ctx)

\* lines 209-255: one issue of the input
ClassifyIssue(i, operation, ctx) ==
  LET meta == ErrorCodeToErrorMetadata(i.code)
      issue == [i EXCEPT
                  !.documentationUrl = meta.docUrl,
                  !.severity = meta.severity,
                  !.sourceUrl = IF i.sourceUrl = "" THEN operation.specFilePath ELSE @,
                  !.pathsInPayload = <<>>]
  IN  MapPaths([issue |-> issue, skipIssue |-> FALSE],
               i.jsonPathsInPayload, 1, operation, ctx)

\* SchemaValidateIssueToLiveValidationIssue putting each issue at the head of
\* output
RECURSIVE SchemaValidateIssuePrepending(_, _, _, _)
SchemaValidateIssuePrepending(input, operation, ctx, output) ==
  IF input = <<>> THEN output
  ELSE LET classified == ClassifyIssue(Head(input), operation, ctx)
       IN  SchemaValidateIssuePrepending(
             Tail(input), operation, ctx,
             IF ~classified.skipIssue THEN <<classified.issue>> \o output ELSE output)

\* lines 202-261
RECURSIVE SchemaValidateIssueToLiveValidationIssue(_, _, _, _)
SchemaValidateIssueToLiveValidationIssue(input, operation, ctx, output) ==
  IF input = <<>> THEN output
  ELSE LET classified == ClassifyIssue(Head(input), operation, ctx)
       IN  SchemaValidateIssueToLiveValidationIssue(
             Tail(input), operation, ctx,
             IF ~classified.skipIssue THEN Append(output, classified.issue) ELSE output)

(***************************************************************************)
(* The two entry points.  A call either returns its issues or throws.      *)
(***************************************************************************)
Returned(out) == [thrown |-> FALSE, result |-> out.result, trace |-> out.trace]
Thrown(out) == [thrown |-> TRUE, result |-> <<>>, trace |-> out.trace]

\* ValidateSwaggerLiveRequest with the missing validator reported as an issue
\* of the result
ValidateSwaggerLiveRequestFoldingError(request, operation, hasLoader, errors) ==
  IF ~operation.validatorBuilt /\ ~hasLoader
  THEN Returned(Outcome(<<IssueFromErrorCode("INTERNAL_ERROR", "loader")>>, <<>>))
  ELSE LET headers == TransformLiveHeader(request.headers, operation.headerTransform)
           gated == ValidateContentType(operation.consumes, headers, TRUE,
                                        Outcome(<<>>, <<>>))
           ctx == [isResponse |-> FALSE, statusCode |-> Undefined,
                   httpMethod |-> Undefined]
       IN  Returned(Outcome(
             SchemaValidateIssueToLiveValidationIssue(errors, operation, ctx, gated.result),
             Append(gated.trace, "validate")))

\* lines 54-95.  errors: what the compiled request validator returns for the
\* normalized payload.
ValidateSwaggerLiveRequest(request, operation, hasLoader, errors) ==
  IF ~operation.validatorBuilt /\ ~hasLoader THEN Thrown(Outcome(<<>>, <<>>))
  ELSE LET headers == TransformLiveHeader(request.headers, operation.headerTransform)
           gated == ValidateContentType(operation.consumes, headers, TRUE,
                                        Outcome(<<>>, <<>>))
           ctx == [isResponse |-> FALSE, statusCode |-> Undefined,
                   httpMethod |-> Undefined]
       IN  Returned(Outcome(
             SchemaValidateIssueToLiveValidationIssue(errors, operation, ctx, gated.result),
             Append(gated.trace, "validate")))

\* ResolveResponse with the default definition taken for any unknown code
ResolveResponseAnyCode(rspDef, statusCode) ==
  IF MapHas(rspDef, statusCode) THEN statusCode
  ELSE IF MapHas(rspDef, "default") THEN "default"
  ELSE Undefined

\* lines 109-113: the key of the response definition, Undefined when none
ResolveResponse(rspDef, statusCode) ==
  LET realCode == ParseInt(statusCode)
  IN  IF MapHas(rspDef, statusCode) THEN statusCode
      ELSE IF ~realCode.nan /\ 400 <= realCode.value /\ realCode.value <= 599
              /\ MapHas(rspDef, "default")
      THEN "default"
      ELSE Undefined

\* lines 97-148.  errors: what the compiled response validator returns.
ValidateSwaggerLiveResponse(response, operation, hasLoader, isArmCall, errors) ==
  LET statusCode == response.statusCode
      rspDef == operation.responses
      key == ResolveResponse(rspDef, statusCode)
      realCode == ParseInt(statusCode)
  IN  IF key = Undefined
      THEN Returned(Outcome(<<IssueFromErrorCode("INVALID_RESPONSE_CODE", statusCode)>>,
                            <<>>))
      ELSE LET rsp == rspDef[key]
               resolved == Outcome(<<>>, <<"resolve:" \o key>>)
               headers == TransformLiveHeader(response.headers, rsp.headerTransform)
               gated == IF rsp.hasSchema
                        THEN ValidateContentType(operation.produces, headers, FALSE, resolved)
                        ELSE resolved
               checked == IF rsp.hasSchema /\ isArmCall /\ ~realCode.nan
                             /\ realCode.value >= 200 /\ realCode.value < 300
                          THEN ValidateLroOperation(operation, statusCode, headers, gated)
                          ELSE gated
               ctx == [isResponse |-> TRUE, statusCode |-> statusCode,
                       httpMethod |-> operation.method]
           IN  IF ~rsp.validatorBuilt /\ ~hasLoader THEN Thrown(resolved)
               ELSE Returned(Outcome(
                      SchemaValidateIssueToLiveValidationIssue(errors, operation, ctx,
                                                               checked.result),
                      Append(checked.trace, "validate")))

(***************************************************************************)
(* The calls of the two entry points the model makes.                      *)
(***************************************************************************)
ResponseDefinition(hasSchema, validatorBuilt, headerTransform) ==
  [hasSchema |-> hasSchema, validatorBuilt |-> validatorBuilt,
   headerTransform |-> headerTransform]

\* operation.responses: every success code and a default, validators built
ResponsesFull ==
  [code \in {"200", "201", "202", "204", "default"} |->
     ResponseDefinition(TRUE, TRUE, EmptyMap)]

\* operation.responses: two codes, 202 without a schema, no default, no
\* validator built yet
ResponsesSparse ==
  [code \in {"200", "202"} |->
     ResponseDefinition(code = "200", FALSE, [h \in {"location"} |-> "toLowerCase"])]

Methods == {"put", "post", "patch", "delete", "get"}
JsonOnly == <<"application/json">>
JsonOrBinary == <<"application/json", "application/octet-stream">>

Operations ==
  { [method |-> method, longRunning |-> longRunning, consumes |-> mediaTypes,
     produces |-> mediaTypes, responses |-> responses,
     validatorBuilt |-> responses = ResponsesFull, headerTransform |-> EmptyMap,
     specFilePath |-> FileA] :
      method \in Methods, longRunning \in BOOLEAN,
      mediaTypes \in {JsonOnly, JsonOrBinary},
      responses \in {ResponsesFull, ResponsesSparse} }

StatusCodes == {"200", "201", "202", "204", "301", "503"}

HeaderEntries ==
  { Header("location", "U"), Header("Location", ""),
    Header("azure-AsyncOperation", "u"),
    Header("Content-Type", "application/json; charset=utf-8") }

NamesDistinct(headers) ==
  \A i, j \in 1..Len(headers) : headers[i].name = headers[j].name => i = j

HeaderObjects == {h \in SeqsUpTo(HeaderEntries, MaxHeaders) : NamesDistinct(h)}
FewHeaderObjects == {<<>>, <<Header("location", "U")>>}

\* a raw issue of the schema validator
RawIssue(code, jsonPathsInPayload, sourceUrl) ==
  [ref |-> 0, code |-> code, severity |-> Undefined,
   message |-> GetValidateErrorMessage(code, "p"),
   jsonPathsInPayload |-> jsonPathsInPayload, pathsInPayload |-> <<>>,
   params |-> <<"p">>, sourceUrl |-> sourceUrl, documentationUrl |-> Undefined]

RawIssues ==
  { RawIssue(MissingRequiredProperty, <<".body">>, ""),
    RawIssue(MissingRequiredProperty, <<".body.properties">>, ""),
    RawIssue(MissingRequiredProperty, <<".headers">>, ""),
    RawIssue(MissingRequiredProperty, <<".query">>, ""),
    RawIssue(MissingRequiredProperty, <<".headers", ".body">>, ""),
    RawIssue(MissingRequiredProperty, <<".body.properties", ".query", ".body">>, ""),
    RawIssue("INVALID_TYPE", <<".body.properties.count">>, "common.json"),
    RawIssue("INVALID_TYPE", <<".body">>, "") }

\* the issues of one validator run are distinct objects: ref tells them apart
WithRefs(issues) == [i \in 1..Len(issues) |-> [issues[i] EXCEPT !.ref = i]]

RawIssueLists == {WithRefs(issues) : issues \in SeqsUpTo(RawIssues, MaxIssues)}

LiveCall(kind, operation, statusCode, headers, hasLoader, isArmCall, errors) ==
  [kind |-> kind, operation |-> operation, statusCode |-> statusCode,
   headers |-> headers, hasLoader |-> hasLoader, isArmCall |-> isArmCall,
   errors |-> errors]

\* some runs of the validator that return two issues
RawIssuePairs ==
  { WithRefs(<<RawIssue(MissingRequiredProperty, <<".body">>, ""),
               RawIssue("INVALID_TYPE", <<".body.properties.count">>, "common.json")>>),
    WithRefs(<<RawIssue("INVALID_TYPE", <<".body.properties.count">>, "common.json"),
               RawIssue(MissingRequiredProperty, <<".body">>, "")>>),
    WithRefs(<<RawIssue(MissingRequiredProperty, <<".headers">>, ""),
               RawIssue(MissingRequiredProperty, <<".body.properties">>, "")>>) }

\* the calls: every header object without raw issues, and every list of raw
\* issues, those pairs included, with few header objects
HeadersAndErrors ==
  {<<h, <<>>>> : h \in HeaderObjects}
  \cup {<<h, e>> : h \in FewHeaderObjects, e \in RawIssueLists}
  \cup {<<h, e>> : h \in FewHeaderObjects, e \in RawIssuePairs}

RequestCalls ==
  { LiveCall("request", operation, Undefined, he[1], hasLoader, FALSE, he[2]) :
      operation \in {o \in Operations : o.method = "post" /\ ~o.longRunning},
      hasLoader \in BOOLEAN, he \in HeadersAndErrors }

ResponseCalls ==
  { LiveCall("response", operation, statusCode, he[1], hasLoader, isArmCall, he[2]) :
      operation \in Operations, statusCode \in StatusCodes,
      hasLoader \in BOOLEAN, isArmCall \in BOOLEAN, he \in HeadersAndErrors }

\* validateSwaggerLiveRequest is called, lines 54-95
CallValidateSwaggerLiveRequest ==
  /\ livePc = "idle"
  /\ \E call \in RequestCalls :
       LET done == ValidateSwaggerLiveRequest([headers |-> call.headers],
                                              call.operation, call.hasLoader, call.errors)
       IN  /\ liveCall' = call
           /\ liveResult' = done.result
           /\ liveTrace' = done.trace
           /\ livePc' = IF done.thrown THEN "thrown" ELSE "returned"
  /\ UNCHANGED trafficVars

\* validateSwaggerLiveResponse is called, lines 97-148
CallValidateSwaggerLiveResponse ==
  /\ livePc = "idle"
  /\ \E call \in ResponseCalls :
       LET done == ValidateSwaggerLiveResponse(
                     [statusCode |-> call.statusCode, headers |-> call.headers],
                     call.operation, call.hasLoader, call.isArmCall, call.errors)
       IN  /\ liveCall' = call
           /\ liveResult' = done.result
           /\ liveTrace' = done.trace
           /\ livePc' = IF done.thrown THEN "thrown" ELSE "returned"
  /\ UNCHANGED trafficVars

NextLive == CallValidateSwaggerLiveRequest \/ CallValidateSwaggerLiveResponse

SpecLive == Init /\ [][NextLive]_vars

\* the context the entry point of the call gave the classifier, lines 85 and
\* 135-140
ContextOf(call) ==
  IF call.kind = "request"
  THEN [isResponse |-> FALSE, statusCode |-> Undefined, httpMethod |-> Undefined]
  ELSE [isResponse |-> TRUE, statusCode |-> call.statusCode,
        httpMethod |-> call.operation.method]

\* the issues of a result that came from the schema validator
RECURSIVE ClassifiedIssues(_)
ClassifiedIssues(result) ==
  IF result = <<>> THEN <<>>
  ELSE IF Head(result).ref > 0
  THEN <<Head(result)>> \o ClassifiedIssues(Tail(result))
  ELSE ClassifiedIssues(Tail(result))

\* schemaValidateIssueToLiveValidationIssue, lines 202-261, is called again
\* with the issues it returned, the same operation and the same context
ClassifyAgain ==
  /\ livePc = "returned"
  /\ \E i \in 1..Len(liveTrace) : liveTrace[i] = "validate"
  /\ ClassifiedIssues(liveResult) # <<>>
  /\ liveResult' = SchemaValidateIssueToLiveValidationIssue(
                     ClassifiedIssues(liveResult), liveCall.operation,
                     ContextOf(liveCall), <<>>)
  /\ livePc' = "classifiedAgain"
  /\ UNCHANGED <<liveCall, liveTrace>>
  /\ UNCHANGED trafficVars

NextLiveAgain == NextLive \/ ClassifyAgain

SpecLiveAgain == Init /\ [][NextLiveAgain]_vars

(***************************************************************************)
(* Properties of the TrafficValidator.                                     *)
(***************************************************************************)
\* whether processing the payload throws, given the swagger files it maps to
Raises(mapper, sample) ==
  \/ sample.raises = "load"
  \/ /\ sample.raises = "position"
     /\ ValidationFailed(sample)
     /\ Len(SwaggerFilesOf(mapper, sample)) # 0

Covers(map, swaggerFile, operationId) ==
  MapHas(map, swaggerFile) /\ ArrayIncludes(map[swaggerFile], operationId)

\* the bookkeeping and the result records of payload j are there
Processed(j) ==
  LET sample == trafficFiles[j]
      swaggerFiles == SwaggerFilesOf(operationSpecMapper, sample)
  IN  \A k \in 1..Len(swaggerFiles) :
        /\ Covers(trafficOperation, swaggerFiles[k], sample.info.operationId)
        /\ ValidationFailed(sample) =>
             /\ Covers(validationFailOperations, swaggerFiles[k], sample.info.operationId)
             /\ \E r \in 1..Len(trafficValidationResult) :
                  /\ trafficValidationResult[r].payloadFilePath = j
                  /\ trafficValidationResult[r].specFilePath = swaggerFiles[k]

RaisingFiles == {j \in 1..Len(trafficFiles) : Raises(operationSpecMapper, trafficFiles[j])}

\* C1: when exactly one payload of the list raises, validate() ends with one
\* exception record for it and with every other payload processed, wherever
\* the raising payload sits in the list.
C1_OneBadSampleIsIsolated ==
  (pc = "done" /\ calls = 1 /\ Cardinality(RaisingFiles) = 1) =>
    /\ \E r \in 1..Len(trafficValidationResult) :
         /\ trafficValidationResult[r].payloadFilePath \in RaisingFiles
         /\ trafficValidationResult[r].runtimeExceptions = <<"RUNTIME_ERROR">>
    /\ \A j \in 1..Len(trafficFiles) : j \notin RaisingFiles => Processed(j)

\* C2: no step removes an operation identifier from the exercised set of a
\* specification file.
C2_CoverageIsMonotonic ==
  [][\A swaggerFile \in DOMAIN trafficOperation :
       /\ swaggerFile \in DOMAIN trafficOperation'
       /\ \A i \in 1..Len(trafficOperation[swaggerFile]) :
            ArrayIncludes(trafficOperation'[swaggerFile],
                          trafficOperation[swaggerFile][i])]_vars

\* an operation was exercised by a passing payload, then by a failing one,
\* and is still recorded as covered
C2_Witness ==
  /\ pc = "loop"
  /\ idx = 3
  /\ ~ValidationFailed(trafficFiles[1])
  /\ ValidationFailed(trafficFiles[2])
  /\ trafficFiles[1].info.operationId = trafficFiles[2].info.operationId
  /\ \E swaggerFile \in DOMAIN trafficOperation :
       /\ Covers(trafficOperation, swaggerFile, trafficFiles[1].info.operationId)
       /\ Covers(validationFailOperations, swaggerFile, trafficFiles[1].info.operationId)

\* C3: every entry of the report has T > 0, 0 <= C <= T and coverageRate
\* equal to C / T.
C3_CoverageRate ==
  \A i \in 1..Len(operationCoverageResult) :
    LET info == operationCoverageResult[i]
    IN  /\ info.totalOperations > 0
        /\ 0 <= info.coveredOperations
        /\ info.coveredOperations <= info.totalOperations
        /\ info.coverageRate.den > 0
        /\ info.coverageRate.num * info.totalOperations
             = info.coveredOperations * info.coverageRate.den

\* a report after a repeated operation and a payload mapped to two
\* specification files, with an entry covered in part
C3_Witness ==
  /\ pc = "done"
  /\ Len(operationCoverageResult) >= 2
  /\ \E i, j \in 1..Len(trafficFiles) :
       /\ i < j
       /\ trafficFiles[i].info.operationId = trafficFiles[j].info.operationId
       /\ Len(SwaggerFilesOf(operationSpecMapper, trafficFiles[i])) >= 2
  /\ \E i \in 1..Len(operationCoverageResult) :
       /\ operationCoverageResult[i].coveredOperations >= 2
       /\ operationCoverageResult[i].coveredOperations
            < operationCoverageResult[i].totalOperations

OperationIdsOf(list) == [i \in 1..Len(list) |-> list[i].operationId]

\* ascending order of the code units, as < and > compare strings
AscendingByCodeUnit(strings) ==
  \A i, j \in 1..Len(strings) : i < j => ~StrLess(strings[j], strings[i])

\* ascending order of localeCompare
AscendingByLocale(strings) ==
  \A i, j \in 1..Len(strings) : i < j => LocaleCompare(strings[i], strings[j]) <= 0

BatchKeys(format) == [i \in 1..Len(format) |-> format[i].operationIdList[1].key]

\* C4 as stated, with one lexical order (that of the two lists, the order of the
\* code units) for the lists and for the batches.
C4_OneLexicalOrder ==
  \A i \in 1..Len(operationCoverageResult) :
    LET info == operationCoverageResult[i]
    IN  /\ AscendingByCodeUnit(OperationIdsOf(info.coveredOperationsList))
        /\ AscendingByCodeUnit(OperationIdsOf(info.unCoveredOperationsList))
        /\ AscendingByCodeUnit(BatchKeys(info.unCoveredOperationsListGen))

\* C4: both lists are in ascending order of the code units of the
\* operation identifier, and the batches are in ascending order of their key
\* under localeCompare.
C4_SortedLists ==
  \A i \in 1..Len(operationCoverageResult) :
    LET info == operationCoverageResult[i]
    IN  /\ AscendingByCodeUnit(OperationIdsOf(info.coveredOperationsList))
        /\ AscendingByCodeUnit(OperationIdsOf(info.unCoveredOperationsList))
        /\ AscendingByLocale(BatchKeys(info.unCoveredOperationsListGen))

\* an entry whose operations were declared and exercised out of order, with
\* several batches
C4_Witness ==
  /\ pc = "done"
  /\ \E i \in 1..Len(operationCoverageResult) :
       LET info == operationCoverageResult[i]
       IN  /\ Len(info.coveredOperationsList) >= 2
           /\ trafficOperation[info.spec] # OperationIdsOf(info.coveredOperationsList)
           /\ Len(info.unCoveredOperationsListGen) >= 2
           /\ ~AscendingByCodeUnit(MapperGet(operationSpecMapper, info.spec))

(***************************************************************************)
(* Properties of the live validation.                                      *)
(***************************************************************************)
ResponseCallEnded == livePc # "idle" /\ liveCall.kind = "response"
ResponseCallReturned == livePc = "returned" /\ liveCall.kind = "response"
RequestCallReturned == livePc = "returned" /\ liveCall.kind = "request"

HasCode(issues, code) == \E i \in 1..Len(issues) : issues[i].code = code
CountCode(issues, code) == Cardinality({i \in 1..Len(issues) : issues[i].code = code})
Ran(check) == \E i \in 1..Len(liveTrace) : liveTrace[i] = check

\* the status code is a number of 400..599
ServerOrClientError(statusCode) ==
  ~ParseInt(statusCode).nan /\ ParseInt(statusCode).value \in 400..599

\* C5: the response definition is the one of the exact status code, else the
\* default one when the code is in 400..599; with none resolved the call
\* returns exactly one INVALID_RESPONSE_CODE issue and runs no check.
C5_ResponseResolution ==
  ResponseCallEnded =>
    LET definitions == liveCall.operation.responses
        exact == liveCall.statusCode \in DOMAIN definitions
        fallback == /\ ~exact
                    /\ "default" \in DOMAIN definitions
                    /\ ServerOrClientError(liveCall.statusCode)
    IN  /\ exact => /\ liveTrace # <<>>
                    /\ liveTrace[1] = "resolve:" \o liveCall.statusCode
        /\ fallback => /\ liveTrace # <<>>
                       /\ liveTrace[1] = "resolve:default"
        /\ (exact \/ fallback) => ~HasCode(liveResult, "INVALID_RESPONSE_CODE")
        /\ (~exact /\ ~fallback) =>
             /\ livePc = "returned"
             /\ Len(liveResult) = 1
             /\ liveResult[1].code = "INVALID_RESPONSE_CODE"
             /\ liveTrace = <<>>

\* a 301 answer to an operation that declares a default response and no 301
C5_Witness ==
  /\ ResponseCallReturned
  /\ liveCall.statusCode = "301"
  /\ "default" \in DOMAIN liveCall.operation.responses
  /\ liveCall.errors # <<>>
  /\ Len(liveResult) = 1
  /\ liveResult[1].code = "INVALID_RESPONSE_CODE"

LroCheckOf(method) ==
  /\ ResponseCallReturned
  /\ liveCall.operation.method = method
  /\ liveCall.operation.longRunning
  /\ Ran("lro")

\* C6: in the LRO check of a long-running DELETE, 204 runs no header check
\* and emits no LRO issue, 202 runs the header check and emits no response
\* code issue, any other code emits LRO_RESPONSE_CODE.
C6_LroDelete ==
  LroCheckOf("delete") =>
    /\ liveCall.statusCode = "204" =>
         /\ ~Ran("lroHeader")
         /\ ~HasCode(liveResult, "LRO_RESPONSE_CODE")
         /\ ~HasCode(liveResult, "LRO_RESPONSE_HEADER")
    /\ liveCall.statusCode = "202" =>
         /\ Ran("lroHeader")
         /\ ~HasCode(liveResult, "LRO_RESPONSE_CODE")
    /\ liveCall.statusCode \notin {"202", "204"} =>
         HasCode(liveResult, "LRO_RESPONSE_CODE")

\* a long-running DELETE answered 200
C6_Witness ==
  /\ LroCheckOf("delete")
  /\ liveCall.statusCode = "200"
  /\ CountCode(liveResult, "LRO_RESPONSE_CODE") = 1
  /\ ~Ran("lroHeader")

\* C7: in the LRO check of a long-running PUT, 200 runs no header check and
\* emits no LRO issue, 201 and 202 run the header check, any other code emits
\* LRO_RESPONSE_CODE and runs no header check.
C7_LroPut ==
  LroCheckOf("put") =>
    /\ liveCall.statusCode = "200" =>
         /\ ~Ran("lroHeader")
         /\ ~HasCode(liveResult, "LRO_RESPONSE_CODE")
         /\ ~HasCode(liveResult, "LRO_RESPONSE_HEADER")
    /\ liveCall.statusCode \in {"201", "202"} =>
         /\ Ran("lroHeader")
         /\ ~HasCode(liveResult, "LRO_RESPONSE_CODE")
    /\ liveCall.statusCode \notin {"200", "201", "202"} =>
         /\ HasCode(liveResult, "LRO_RESPONSE_CODE")
         /\ ~Ran("lroHeader")

\* a long-running PUT answered 201 without any of the headers
C7_Witness ==
  /\ LroCheckOf("put")
  /\ liveCall.statusCode = "201"
  /\ liveCall.headers = <<>>
  /\ Ran("lroHeader")
  /\ CountCode(liveResult, "LRO_RESPONSE_HEADER") = 1

LroHeaderNames == {"location", "azure-asyncoperation"}

\* some header of the response, its name read without case as HTTP does, is
\* one of the accepted ones and has a value
AcceptedHeaderPresent(headers) ==
  \E i \in 1..Len(headers) :
    /\ ToLowerCase(headers[i].name) \in LroHeaderNames
    /\ headers[i].value # ""

\* the value the response gives a lower-cased name: that of the last header
\* spelt so, "" when there is none
LastValue(headers, name) ==
  LET spelt == {i \in 1..Len(headers) : ToLowerCase(headers[i].name) = name}
  IN  IF spelt = {} THEN ""
      ELSE headers[CHOOSE i \in spelt : \A j \in spelt : j <= i].value

\* C8 as stated: the header check emits no issue exactly when the response
\* carries a non-empty `location` or `azure-AsyncOperation` header, and emits
\* one LRO_RESPONSE_HEADER issue otherwise.
C8_AnyHeaderPresent ==
  (ResponseCallReturned /\ Ran("lroHeader")) =>
    CountCode(liveResult, "LRO_RESPONSE_HEADER") =
      IF AcceptedHeaderPresent(liveCall.headers) THEN 0 ELSE 1

\* C8: the header check reads the headers by lower-cased name, the last
\* spelling of a name giving its value: it emits no issue when `location` or
\* `azure-asyncoperation` has a non-empty value so read, and exactly one
\* LRO_RESPONSE_HEADER issue otherwise.
C8_LastSpellingDecides ==
  (ResponseCallReturned /\ Ran("lroHeader")) =>
    CountCode(liveResult, "LRO_RESPONSE_HEADER") =
      IF \E name \in LroHeaderNames : LastValue(liveCall.headers, name) # ""
      THEN 0 ELSE 1

\* a DELETE answered 202 with `location: U` followed by an empty `Location`
C8_Witness ==
  /\ LroCheckOf("delete")
  /\ liveCall.statusCode = "202"
  /\ Ran("lroHeader")
  /\ liveCall.headers = <<Header("location", "U"), Header("Location", "")>>
  /\ CountCode(liveResult, "LRO_RESPONSE_HEADER") = 1

\* the issue of the result made from the k-th raw issue
ResultOf(k) == {i \in 1..Len(liveResult) : liveResult[i].ref = k}
RawMissing == {k \in 1..Len(liveCall.errors) : liveCall.errors[k].code = MissingRequiredProperty}

BodyRoot(path) == path = ".body"
NestedInBody(path) == StartsWith(path, ".body") /\ Len(path) > 5
HeaderPath(path) == StartsWith(path, ".headers")

\* C9 as stated: in a request every raw missing required property comes out
\* as MISSING_REQUIRED_PARAMETER.
C9_EveryMissingProperty ==
  RequestCallReturned =>
    \A k \in RawMissing :
      /\ ResultOf(k) # {}
      /\ \A i \in ResultOf(k) : liveResult[i].code = "MISSING_REQUIRED_PARAMETER"

\* C9: in a request a raw missing required property comes out as
\* MISSING_REQUIRED_PARAMETER when one of its JSON paths is not nested in the
\* body (the body root, or outside the body), and keeps its code when all its
\* paths are nested in the body.
C9_MissingOutsideNestedBody ==
  RequestCallReturned =>
    \A k \in RawMissing :
      LET paths == liveCall.errors[k].jsonPathsInPayload
          reclassified == \E j \in 1..Len(paths) : ~NestedInBody(paths[j])
      IN  /\ ResultOf(k) # {}
          /\ \A i \in ResultOf(k) :
               liveResult[i].code = IF reclassified THEN "MISSING_REQUIRED_PARAMETER"
                                    ELSE MissingRequiredProperty

\* a request whose body is missing altogether
C9_Witness ==
  /\ RequestCallReturned
  /\ \E k \in RawMissing :
       /\ liveCall.errors[k].jsonPathsInPayload = <<".body">>
       /\ \E i \in ResultOf(k) : liveResult[i].code = "MISSING_REQUIRED_PARAMETER"

\* C10 as stated: in a response a raw missing required property comes out as
\* INVALID_RESPONSE_BODY when its location is in the body and as
\* INVALID_RESPONSE_HEADER when it is in the headers.
C10_BodyOrHeaders ==
  ResponseCallReturned =>
    \A k \in RawMissing : \A i \in ResultOf(k) :
      LET paths == liveCall.errors[k].jsonPathsInPayload
      IN  /\ (\A j \in 1..Len(paths) : StartsWith(paths[j], ".body"))
               => liveResult[i].code = "INVALID_RESPONSE_BODY"
          /\ (\A j \in 1..Len(paths) : HeaderPath(paths[j]))
               => liveResult[i].code = "INVALID_RESPONSE_HEADER"

\* C10: in a response a returned raw missing required property takes its code
\* from the first of its JSON paths that is the body root or a header path:
\* INVALID_RESPONSE_BODY for the body root, INVALID_RESPONSE_HEADER for a
\* header path; with no such path it keeps its code.
C10_FirstRootOrHeaderPath ==
  ResponseCallReturned =>
    \A k \in RawMissing : \A i \in ResultOf(k) :
      LET paths == liveCall.errors[k].jsonPathsInPayload
          deciding == {j \in 1..Len(paths) : BodyRoot(paths[j]) \/ HeaderPath(paths[j])}
          first == CHOOSE j \in deciding : \A other \in deciding : j <= other
      IN  liveResult[i].code =
            IF deciding = {} THEN MissingRequiredProperty
            ELSE IF BodyRoot(paths[first]) THEN "INVALID_RESPONSE_BODY"
            ELSE "INVALID_RESPONSE_HEADER"

\* a response with a required property missing from its headers and its body
C10_Witness ==
  /\ ResponseCallReturned
  /\ \E k \in RawMissing :
       /\ liveCall.errors[k].jsonPathsInPayload = <<".headers", ".body">>
       /\ \E i \in ResultOf(k) : liveResult[i].code = "INVALID_RESPONSE_HEADER"

\* the response validator ran and its issues were classified
ResponseValidated == ResponseCallReturned /\ Ran("validate")

AcceptedAsync == liveCall.operation.longRunning /\ liveCall.statusCode \in {"201", "202"}

\* C11 as stated: in a response a raw missing required property is left out of
\* the result exactly when the operation is long-running and the status code
\* is 201 or 202.
C11_EveryMissingProperty ==
  ResponseValidated =>
    \A k \in RawMissing : (ResultOf(k) = {}) <=> AcceptedAsync

\* C11: in a response a raw missing required property is left out of the
\* result exactly when the operation is long-running, the status code is 201
\* or 202, and the first of its JSON paths that is the body root or a header
\* path is the body root; otherwise it is returned, once.
C11_MissingBodySuppressed ==
  ResponseValidated =>
    \A k \in RawMissing :
      LET paths == liveCall.errors[k].jsonPathsInPayload
          deciding == {j \in 1..Len(paths) : BodyRoot(paths[j]) \/ HeaderPath(paths[j])}
          first == CHOOSE j \in deciding : \A other \in deciding : j <= other
          suppressed == AcceptedAsync /\ deciding # {} /\ BodyRoot(paths[first])
      IN  Cardinality(ResultOf(k)) = IF suppressed THEN 0 ELSE 1

\* a long-running operation answered 201 without a body
C11_Witness ==
  /\ ResponseValidated
  /\ liveCall.operation.longRunning
  /\ liveCall.statusCode = "201"
  /\ \E k \in RawMissing :
       /\ liveCall.errors[k].jsonPathsInPayload = <<".body">>
       /\ ResultOf(k) = {}

\* what a second classification may change of an issue
SameClassification(old, new) ==
  /\ new.code = old.code
  /\ new.severity = old.severity
  /\ new.message = old.message
  /\ new.jsonPathsInPayload = old.jsonPathsInPayload
  /\ new.pathsInPayload = old.pathsInPayload

FinalCodes == {"INVALID_RESPONSE_BODY", "INVALID_RESPONSE_HEADER", "MISSING_REQUIRED_PARAMETER"}

\* C12 as stated: classifying the classified issues again leaves the code,
\* severity, message, JSON paths and JSON pointers of every issue unchanged.
C12_SecondPassChangesNothing ==
  [][ClassifyAgain =>
       LET old == ClassifiedIssues(liveResult)
       IN  /\ Len(liveResult') = Len(old)
           /\ \A i \in 1..Len(old) : SameClassification(old[i], liveResult'[i])]_vars

\* C12: classifying the classified issues again returns as many issues and
\* keeps every code except that, in a request, of an issue still coded
\* OBJECT_MISSING_REQUIRED_PROPERTY, which becomes MISSING_REQUIRED_PARAMETER;
\* it keeps the severity and message of an issue with any other code; it keeps
\* every JSON path and pointer except a body root path `.body`, which it
\* rewrites to `$`.
C12_SecondPass ==
  [][ClassifyAgain =>
       LET old == ClassifiedIssues(liveResult)
       IN  /\ Len(liveResult') = Len(old)
           /\ \A i \in 1..Len(old) :
                LET before == old[i]
                    after == liveResult'[i]
                    paths == before.jsonPathsInPayload
                IN  /\ after.ref = before.ref
                    /\ after.code =
                         IF /\ liveCall.kind = "request"
                            /\ before.code = MissingRequiredProperty
                            /\ paths # <<>>
                         THEN "MISSING_REQUIRED_PARAMETER"
                         ELSE before.code
                    /\ before.code # MissingRequiredProperty =>
                         /\ after.severity = before.severity
                         /\ after.message = before.message
                    /\ Len(after.jsonPathsInPayload) = Len(paths)
                    /\ Len(after.pathsInPayload) = Len(paths)
                    /\ \A j \in 1..Len(paths) :
                         IF BodyRoot(paths[j])
                         THEN /\ after.jsonPathsInPayload[j] = "$"
                              /\ after.pathsInPayload[j] = JsonPathToPointer("$")
                         ELSE /\ after.jsonPathsInPayload[j] = paths[j]
                              /\ after.pathsInPayload[j] = before.pathsInPayload[j]]_vars

\* a second classification of a response with a missing body: the issue keeps
\* its code, and its path `.body` has become `$`
C12_Witness ==
  /\ livePc = "classifiedAgain"
  /\ liveCall.kind = "response"
  /\ \E i \in 1..Len(liveResult) :
       /\ liveResult[i].code = "INVALID_RESPONSE_BODY"
       /\ liveResult[i].jsonPathsInPayload = <<"$">>
       /\ liveCall.errors[liveResult[i].ref].jsonPathsInPayload = <<".body">>

\* the call carries no content-type header, however its name is spelt
ContentTypeAbsent ==
  \A i \in 1..Len(liveCall.headers) :
    ToLowerCase(liveCall.headers[i].name) # "content-type"

\* a response definition was resolved for the status code of the call
ResponseResolved == ResponseCallReturned /\ liveTrace # <<>>

\* the response definition the status code of the call resolves to
ResolvedDefinition ==
  LET definitions == liveCall.operation.responses
  IN  IF liveCall.statusCode \in DOMAIN definitions
      THEN definitions[liveCall.statusCode]
      ELSE definitions["default"]

OctetStreamAllowed ==
  \E i \in 1..Len(liveCall.operation.produces) :
    liveCall.operation.produces[i] = "application/octet-stream"

\* C13 as stated: a response without a content-type header gets a content
\* type issue exactly when application/octet-stream is not among the produces
\* media types of the operation.
C13_EveryResponse ==
  (ResponseResolved /\ ContentTypeAbsent) =>
    (HasCode(liveResult, "INVALID_CONTENT_TYPE") <=> ~OctetStreamAllowed)

\* C13: a response without a content-type header whose resolved definition
\* declares a schema gets exactly one content type issue, naming
\* application/octet-stream, when that type is not among the produces media
\* types, and none when it is; a definition without a schema gets none.
C13_AbsentMeansOctetStream ==
  (ResponseResolved /\ ContentTypeAbsent) =>
    /\ CountCode(liveResult, "INVALID_CONTENT_TYPE") =
         IF ResolvedDefinition.hasSchema /\ ~OctetStreamAllowed THEN 1 ELSE 0
    /\ \A i \in 1..Len(liveResult) :
         liveResult[i].code = "INVALID_CONTENT_TYPE" =>
           liveResult[i].message =
             GetValidateErrorMessage("INVALID_CONTENT_TYPE",
                                     <<"application/octet-stream",
                                       liveCall.operation.produces>>)

\* a response without headers to an operation that produces JSON alone
C13_Witness ==
  /\ ResponseResolved
  /\ liveCall.headers = <<>>
  /\ ResolvedDefinition.hasSchema
  /\ ~OctetStreamAllowed
  /\ CountCode(liveResult, "INVALID_CONTENT_TYPE") = 1

OctetStreamConsumed ==
  \E i \in 1..Len(liveCall.operation.consumes) :
    liveCall.operation.consumes[i] = "application/octet-stream"

\* C18: a request without a content-type header gets no content type issue,
\* whatever media types the operation consumes.
C18_RequestWithoutContentType ==
  (RequestCallReturned /\ ContentTypeAbsent) =>
    /\ Ran("contentType")
    /\ ~HasCode(liveResult, "INVALID_CONTENT_TYPE")

\* a request without content-type header to an operation that consumes JSON
\* alone went through the gate
C18_Witness ==
  /\ RequestCallReturned
  /\ ContentTypeAbsent
  /\ ~OctetStreamConsumed
  /\ Ran("contentType")
  /\ ~HasCode(liveResult, "INVALID_CONTENT_TYPE")

\* C14: every issue of a returned result has a code, and the severity and the
\* documentation link the metadata lookup gives for that code.
C14_MetadataOfFinalCode ==
  livePc = "returned" =>
    \A i \in 1..Len(liveResult) :
      /\ liveResult[i].code # ""
      /\ liveResult[i].code # Undefined
      /\ liveResult[i].severity = ErrorCodeToErrorMetadata(liveResult[i].code).severity
      /\ liveResult[i].documentationUrl =
           ErrorCodeToErrorMetadata(liveResult[i].code).docUrl

(***************************************************************************)
(* Further properties of the TrafficValidator.                             *)
(***************************************************************************)
\* the payload at which the loop of validate() ends: the first that raises,
\* past the last one when none does
StoppedAt ==
  IF RaisingFiles = {} THEN Len(trafficFiles) + 1
  ELSE CHOOSE j \in RaisingFiles : \A other \in RaisingFiles : j <= other

\* the specification files for which the loop recorded payload j: all those
\* it maps to, but the first alone when locating the operation in it raised
RecordedFiles(j) ==
  LET swaggerFiles == SwaggerFilesOf(operationSpecMapper, trafficFiles[j])
  IN  IF j < StoppedAt THEN {swaggerFiles[k] : k \in 1..Len(swaggerFiles)}
      ELSE IF j = StoppedAt /\ trafficFiles[j].raises = "position"
      THEN {swaggerFiles[1]}
      ELSE {}

ReportedFiles == {operationCoverageResult[i].spec : i \in 1..Len(operationCoverageResult)}

\* C15: after validate() the report has an entry for a specification file
\* exactly when the loop recorded a payload mapped to it; every entry is that
\* of a loaded file which declares operations, totalOperations being their
\* number.
C15_ReportedIffMatched ==
  pc = "done" =>
    /\ \A m \in 1..Len(operationSpecMapper) :
         operationSpecMapper[m].key \in ReportedFiles
           <=> \E j \in 1..Len(trafficFiles) :
                 operationSpecMapper[m].key \in RecordedFiles(j)
    /\ \A i \in 1..Len(operationCoverageResult) :
         /\ operationCoverageResult[i].totalOperations # 0
         /\ \E m \in 1..Len(operationSpecMapper) :
              /\ operationSpecMapper[m].key = operationCoverageResult[i].spec
              /\ Len(operationSpecMapper[m].value)
                   = operationCoverageResult[i].totalOperations

\* a report with an entry, over specification files of which one declares no
\* operation and another, with operations, was matched by no payload
C15_Witness ==
  /\ pc = "done"
  /\ operationCoverageResult # <<>>
  /\ \E m \in 1..Len(operationSpecMapper) :
       /\ Len(operationSpecMapper[m].value) = 0
       /\ operationSpecMapper[m].key \notin ReportedFiles
  /\ \E m \in 1..Len(operationSpecMapper) :
       /\ Len(operationSpecMapper[m].value) > 0
       /\ operationSpecMapper[m].key \notin ReportedFiles

\* payload j is mapped to the specification file
MappedTo(j, swaggerFile) ==
  LET swaggerFiles == SwaggerFilesOf(operationSpecMapper, trafficFiles[j])
  IN  \E k \in 1..Len(swaggerFiles) : swaggerFiles[k] = swaggerFile

\* the validation of the payload was not successful: its request or its
\* response result is not a success, or the validation ended with a runtime
\* exception of its own
Unsuccessful(sample) ==
  sample.request # "ok" \/ sample.response # "ok" \/ sample.runtimeException

\* C16: after validate() over payloads none of which raises, every entry of
\* the report counts as covered the distinct operation identifiers of the
\* payloads mapped to its file, as failed the distinct operation identifiers
\* of those payloads whose validation was not successful, and as uncovered
\* the declared operations less the covered ones.
C16_CountsOfDistinctOperations ==
  (pc = "done" /\ RaisingFiles = {}) =>
    \A i \in 1..Len(operationCoverageResult) :
      LET info == operationCoverageResult[i]
          mapped == {j \in 1..Len(trafficFiles) : MappedTo(j, info.spec)}
          exercised == {trafficFiles[j].info.operationId : j \in mapped}
          failing == {trafficFiles[j].info.operationId :
                        j \in {m \in mapped : Unsuccessful(trafficFiles[m])}}
      IN  /\ info.coveredOperations = Cardinality(exercised)
          /\ info.validationFailOperations = Cardinality(failing)
          /\ info.unCoveredOperations = info.totalOperations - info.coveredOperations

\* a report over payloads of which two, one passing and one failing, twice,
\* exercise the same operation of a file
C16_Witness ==
  /\ pc = "done"
  /\ RaisingFiles = {}
  /\ Len(trafficFiles) = 3
  /\ trafficFiles[2] = trafficFiles[3]
  /\ trafficFiles[1].info.operationId = trafficFiles[2].info.operationId
  /\ ~Unsuccessful(trafficFiles[1])
  /\ Unsuccessful(trafficFiles[2])
  /\ \E i \in 1..Len(operationCoverageResult) :
       /\ MappedTo(1, operationCoverageResult[i].spec)
       /\ operationCoverageResult[i].coveredOperations = 1
       /\ operationCoverageResult[i].validationFailOperations = 1
       /\ operationCoverageResult[i].unCoveredOperations >= 1

\* the loop of validate() is about to process a payload that raises nothing
\* and matches no specification file
AtUndefinedOperation ==
  /\ pc = "loop"
  /\ idx <= Len(trafficFiles)
  /\ trafficFiles[idx].raises # "load"
  /\ SwaggerFilesOf(operationSpecMapper, trafficFiles[idx]) = <<>>

\* C17: processing a payload that matches no specification file adds one to
\* operationUndefinedResult, leaves the exercised sets, the failing sets and
\* the result records as they are, and goes on to the next payload.
C17_UndefinedOperationIsCounted ==
  [][AtUndefinedOperation =>
       /\ operationUndefinedResult' = operationUndefinedResult + 1
       /\ trafficOperation' = trafficOperation
       /\ validationFailOperations' = validationFailOperations
       /\ trafficValidationResult' = trafficValidationResult
       /\ pc' = "loop"
       /\ idx' = idx + 1]_vars

\* a failing payload that matches no specification file was counted, and the
\* payload after it was recorded as covered
C17_Witness ==
  /\ pc = "loop"
  /\ idx = 3
  /\ calls = 1
  /\ trafficFiles[1].raises # "load"
  /\ SwaggerFilesOf(operationSpecMapper, trafficFiles[1]) = <<>>
  /\ Unsuccessful(trafficFiles[1])
  /\ operationUndefinedResult = 1
  /\ trafficValidationResult = <<>>
  /\ \E swaggerFile \in DOMAIN trafficOperation :
       Covers(trafficOperation, swaggerFile, trafficFiles[2].info.operationId)

(***************************************************************************)
(* Further properties of the live validation.                              *)
(***************************************************************************)
\* C19: in the LRO check of a long-running PATCH or POST, 201 and 202 run
\* the header check and emit no response code issue, any other code emits
\* exactly one LRO_RESPONSE_CODE issue and runs no header check.
C19_LroPatchPost ==
  (LroCheckOf("patch") \/ LroCheckOf("post")) =>
    /\ liveCall.statusCode \in {"201", "202"} =>
         /\ Ran("lroHeader")
         /\ ~HasCode(liveResult, "LRO_RESPONSE_CODE")
    /\ liveCall.statusCode \notin {"201", "202"} =>
         /\ CountCode(liveResult, "LRO_RESPONSE_CODE") = 1
         /\ ~Ran("lroHeader")
         /\ ~HasCode(liveResult, "LRO_RESPONSE_HEADER")

\* a long-running PATCH answered 200
C19_Witness ==
  /\ LroCheckOf("patch")
  /\ liveCall.statusCode = "200"
  /\ CountCode(liveResult, "LRO_RESPONSE_CODE") = 1
  /\ ~Ran("lroHeader")

\* the status code of the call resolves to a response definition
Resolves ==
  LET definitions == liveCall.operation.responses
  IN  \/ liveCall.statusCode \in DOMAIN definitions
      \/ "default" \in DOMAIN definitions /\ ServerOrClientError(liveCall.statusCode)

\* no compiled validator exists for the call: for a request that of the
\* operation, for a response that of any of its response definitions
NoCompiledValidator ==
  IF liveCall.kind = "request" THEN ~liveCall.operation.validatorBuilt
  ELSE \A key \in DOMAIN liveCall.operation.responses :
         ~liveCall.operation.responses[key].validatorBuilt

HasLroIssue ==
  HasCode(liveResult, "LRO_RESPONSE_CODE") \/ HasCode(liveResult, "LRO_RESPONSE_HEADER")

\* C21: a response gets an LRO issue only when the operation is long-running,
\* the call is an ARM call, the status code resolves to a response definition
\* with a schema and is in 200..299, and the method is PATCH, POST, DELETE or
\* PUT.
C21_LroIssueOnlyWhenApplicable ==
  (livePc # "idle" /\ liveCall.kind = "response" /\ HasLroIssue) =>
    /\ liveCall.operation.longRunning
    /\ liveCall.isArmCall
    /\ Resolves
    /\ ResolvedDefinition.hasSchema
    /\ ~ParseInt(liveCall.statusCode).nan
    /\ ParseInt(liveCall.statusCode).value \in 200..299
    /\ liveCall.operation.method \in {"patch", "post", "delete", "put"}

\* a long-running POST of an ARM call answered 201 without the headers
C21_Witness ==
  /\ ResponseCallReturned
  /\ liveCall.operation.method = "post"
  /\ liveCall.operation.longRunning
  /\ liveCall.isArmCall
  /\ liveCall.statusCode = "201"
  /\ Resolves
  /\ ResolvedDefinition.hasSchema
  /\ HasCode(liveResult, "LRO_RESPONSE_HEADER")

\* the part of the call an issue of its result comes from: the content type
\* gate, the LRO check, the schema validator
StageOf(issue) ==
  IF issue.ref > 0 THEN 3
  ELSE IF issue.code = "INVALID_CONTENT_TYPE" THEN 1
  ELSE IF issue.code \in {"LRO_RESPONSE_CODE", "LRO_RESPONSE_HEADER"} THEN 2
  ELSE 0

\* the call went past the point where it may throw or return at once: a
\* request whose validator is there, a response whose status code resolved to
\* a definition whose validator is there
CallWentOn ==
  /\ livePc # "idle"
  /\ \/ liveCall.hasLoader
     \/ IF liveCall.kind = "request" THEN liveCall.operation.validatorBuilt
        ELSE Resolves /\ ResolvedDefinition.validatorBuilt
  /\ liveCall.kind = "response" => Resolves

\* C22: a call that went on returns, whatever the content type gate and the
\* LRO check found, with the schema validator run last; its result holds the
\* content type issue (at most one), then the LRO issues, then the issues of
\* the schema validator in the order it produced them, none missing but a
\* suppressed missing required property of a response.
C22_IssuesNeverAbort ==
  CallWentOn =>
    /\ livePc = "returned"
    /\ liveTrace[Len(liveTrace)] = "validate"
    /\ CountCode(liveResult, "INVALID_CONTENT_TYPE") <= 1
    /\ \A i \in 1..Len(liveResult) : StageOf(liveResult[i]) \in 1..3
    /\ \A i, j \in 1..Len(liveResult) :
         i < j =>
           /\ StageOf(liveResult[i]) <= StageOf(liveResult[j])
           /\ StageOf(liveResult[i]) = 3 => liveResult[i].ref < liveResult[j].ref
    /\ \A k \in 1..Len(liveCall.errors) :
         \/ ResultOf(k) # {}
         \/ /\ liveCall.kind = "response"
            /\ liveCall.errors[k].code = MissingRequiredProperty
            /\ AcceptedAsync

\* a response with a content type issue, an LRO issue and two schema issues,
\* in that order
C22_Witness ==
  /\ ResponseCallReturned
  /\ Len(liveResult) = 4
  /\ liveResult[1].code = "INVALID_CONTENT_TYPE"
  /\ liveResult[2].code = "LRO_RESPONSE_HEADER"
  /\ liveResult[3].ref = 1
  /\ liveResult[4].ref = 2
  /\ liveTrace[Len(liveTrace)] = "validate"

(***************************************************************************)
(* Properties of the rollup.                                               *)
(***************************************************************************)
ElementsOf(arr) == {arr[i] : i \in 1..Len(arr)}
OperationIdSet(list) == {list[i].operationId : i \in 1..Len(list)}

\* the part of an identifier before its first underscore, the whole of it
\* when it has none
KeyOfIdentifier(operationId) ==
  LET ends == {n \in 0..Len(operationId) :
                 /\ \A i \in 1..n : CharAt(operationId, i) # "_"
                 /\ n < Len(operationId) => CharAt(operationId, n + 1) = "_"}
  IN  SubSeq(operationId, 1, CHOOSE n \in ends : TRUE)

\* the places <<batch, position>> of the batches
PlacesOf(gen) ==
  UNION {{<<b, k>> : k \in 1..Len(gen[b].operationIdList)} : b \in 1..Len(gen)}

UncoveredAreTheRest(entry, declared, exercised) ==
  LET coveredList == entry.coveredOperationsList
      uncoveredList == entry.unCoveredOperationsList
  IN  /\ OperationIdSet(uncoveredList) = ElementsOf(declared) \ ElementsOf(exercised)
      /\ \A i, j \in 1..Len(uncoveredList) :
           i # j => uncoveredList[i].operationId # uncoveredList[j].operationId
      /\ OperationIdSet(coveredList) \cap OperationIdSet(uncoveredList) = {}
      /\ OperationIdSet(coveredList) \cup OperationIdSet(uncoveredList)
           = ElementsOf(declared)
      /\ Len(uncoveredList) = entry.unCoveredOperations

BatchesPartition(entry) ==
  LET gen == entry.unCoveredOperationsListGen
      uncoveredList == entry.unCoveredOperationsList
      at(bk) == gen[bk[1]].operationIdList[bk[2]]
  IN  /\ \A i \in 1..Len(uncoveredList) :
           Cardinality({bk \in PlacesOf(gen) :
                          at(bk).operationId = uncoveredList[i].operationId}) = 1
      /\ \A bk \in PlacesOf(gen) :
           /\ at(bk).operationId \in OperationIdSet(uncoveredList)
           /\ at(bk).key = KeyOfIdentifier(at(bk).operationId)
           /\ at(bk).key = gen[bk[1]].operationIdList[1].key
      /\ \A b \in 1..Len(gen) : Len(gen[b].operationIdList) > 0
      /\ \A b, c \in 1..Len(gen) :
           b # c => gen[b].operationIdList[1].key # gen[c].operationIdList[1].key

\* C23: in every entry a rollup reports, the uncovered list holds the declared
\* operations of the file that no sample exercised, each once, so that it is
\* disjoint from the covered list, makes up the declared set with it and has
\* unCoveredOperations elements; and the batches partition it: each uncovered
\* operation is at one place of one batch, the operations of a batch share
\* the key that is the part of the identifier before its first underscore,
\* and no two batches have the same key.
C23_UncoveredListAndBatches ==
  [][ (pc # "done" /\ pc' = "done") =>
        \A i \in (Len(operationCoverageResult) + 1)..Len(operationCoverageResult') :
          LET entry == operationCoverageResult'[i]
          IN  /\ UncoveredAreTheRest(entry, MapperGet(operationSpecMapper, entry.spec),
                                     trafficOperation[entry.spec])
              /\ BatchesPartition(entry) ]_vars

\* a reported file with a covered operation and three uncovered ones in two
\* batches
C23_Witness ==
  /\ pc = "done"
  /\ \E i \in 1..Len(operationCoverageResult) :
       LET entry == operationCoverageResult[i]
       IN  /\ entry.coveredOperations = 1
           /\ Len(entry.unCoveredOperationsList) = 3
           /\ Len(entry.unCoveredOperationsListGen) = 2
           /\ \E b \in 1..2 : Len(entry.unCoveredOperationsListGen[b].operationIdList) = 2

\* the lists that hold the same payloads in another order
Orderings(files) ==
  {[i \in 1..Len(files) |-> files[p[i]]] : p \in Permutations(1..Len(files))}

\* C24: when no payload raises, the first validate() reports what it reports
\* for every other ordering of the same payloads: the same entries of
\* operationCoverageResult in the same order, with the same counts, lists and
\* batches, and the same operationUndefinedResult.
C24_ReportIgnoresSampleOrder ==
  (pc = "done" /\ calls = 1 /\ RaisingFiles = {}) =>
    \A files \in Orderings(trafficFiles) :
      LET other == ValidateOnce(operationSpecMapper, files)
      IN  /\ other.operationCoverageResult = operationCoverageResult
          /\ other.operationUndefinedResult = operationUndefinedResult

\* payloads, none raising, that exercise two operations of a file in an order
\* that is not the order of the report, and one undefined operation
C24_Witness ==
  /\ pc = "done" /\ calls = 1 /\ RaisingFiles = {}
  /\ operationUndefinedResult = 1
  /\ \E i \in 1..Len(operationCoverageResult) :
       LET entry == operationCoverageResult[i]
       IN  /\ entry.coveredOperations = 2
           /\ trafficOperation[entry.spec][1] = entry.coveredOperationsList[2].operationId

\* C25: whatever the number of validate() calls, operationCoverageResult
\* holds at most one entry per specification file, and a step leaves the
\* entries that are there as they are, each of them once.
C25_OneEntryPerSpecification ==
  [][ /\ \A i, j \in 1..Len(operationCoverageResult') :
           i # j => operationCoverageResult'[i].spec # operationCoverageResult'[j].spec
      /\ \A i \in 1..Len(operationCoverageResult) :
           Cardinality({j \in 1..Len(operationCoverageResult') :
                          operationCoverageResult'[j].spec
                            = operationCoverageResult[i].spec}) = 1
      /\ Len(operationCoverageResult) <= Len(operationCoverageResult')
      /\ SubSeq(operationCoverageResult', 1, Len(operationCoverageResult))
           = operationCoverageResult ]_vars

====
